---- MODULE Spec2Model ----
(***************************************************************************)
(* Model of the go-url-shortener data plane: the Shortener (URLService on  *)
(* PostgreSQL + Redis), the Resolver (RedirectService / RedirectStore) and *)
(* the asynchronous click-count increment.  Every primary-store call and   *)
(* every cache call is one atomic step; handlers interleave between them.  *)
(* A cache key can disappear at any time (TTL or eviction).  The columns   *)
(* created_at, last_accessed and metadata are payload no branch reads;     *)
(* they are left out of the rows.                                          *)
(***************************************************************************)
EXTENDS Integers, Sequences, FiniteSets, TLC

\* ---------------------------------------------------------------- bounds
MaxTime == 1
MaxClicks == 1
MaxResolves == 2
MaxProbeLen == 11
MaxRecords == 2
MaxRows == 5
MaxEvents == 3

\* ------------------------------------------------------ program constants
MaxAttempts == 10
CodeLength == 7
MinCodeLen == 3
MaxCodeLen == 10

Null == -1
None == [none |-> TRUE]

charset ==
  << "a","b","c","d","e","f","g","h","i","j","k","l","m",
     "n","o","p","q","r","s","t","u","v","w","x","y","z",
     "A","B","C","D","E","F","G","H","I","J","K","L","M",
     "N","O","P","Q","R","S","T","U","V","W","X","Y","Z",
     "0","1","2","3","4","5","6","7","8","9" >>

Alnum == { charset[i] : i \in 1..Len(charset) }

\* ------------------------------------------------------------ input sets
\* a valid custom alias (which a minted code can collide with) and an invalid one
AliasA7 == << "a","a","a","a","a","a","a" >>
AliasBad == << "a","-","c" >>
NoAlias == << >>
Aliases == { NoAlias, AliasA7, AliasBad }
SerialAliases == { AliasA7, AliasBad }

\* random draws of CodeLength bytes; both map to the code aaaaaaa
RandomDraws == { << 0,0,0,0,0,0,0 >>, << 62,0,0,0,0,0,0 >> }

UrlA == [scheme |-> "https", host |-> "example.com", path |-> "/a"]
UrlB == [scheme |-> "https", host |-> "example.com", path |-> "/b"]
UrlFtp == [scheme |-> "ftp", host |-> "example.com", path |-> "/a"]
NoUrl == [scheme |-> "", host |-> "", path |-> ""]
LongURLs == { UrlA, UrlFtp }
NewLongURLs == { NoUrl, UrlB }

Owners == { "u1" }
Callers == { "", "u1", "u2" }
SerialCallers == { "u1", "u2" }
Expirations == { Null, 0 }

\* call slots: two concurrent Shortener handlers, one Resolver handler, two
\* IncrementClickCount goroutines; the whole-system specification runs the
\* Shortener one call at a time and one increment at a time
ShortenerCalls == { "s1", "s2" }
SerialCalls == { "s1" }
ResolverCalls == { "r1" }
Tasks == { "t1", "t2" }
SerialTasks == { "t1" }

\* ------------------------------------------------------------------ state
VARIABLES
  db,        \* url_mappings: set of rows
  nextId,    \* BIGSERIAL sequence of url_mappings.id
  scache,    \* Redis keys urlshortener:url:<code> (Shortener projection)
  rcache,    \* Redis keys url:short:<code> (Resolver CacheEntry)
  now,       \* wall clock
  sv,        \* per Shortener call: position and locals
  slast,     \* the result the Shortener returns in this step (NoSRes: none)
  rv,        \* per Resolver call: position and locals
  rlast,     \* the result the Resolver returns in this step (None: none)
  incs,      \* in-flight IncrementClickCount goroutines
  hist,      \* observations: what has been returned so far
  down,      \* the backends that are unavailable: "db", "clickhouse", "session-cache"
  nres,      \* successful resolutions answered by the Resolver handler
  pubs,      \* click events a goroutine has yet to publish
  published, \* click events published on url.clicked
  inbox,     \* click events handed to the ingester's subscription handler
  records,   \* click events the ingester persisted
  subscribed,\* the ingester's subscription to url.clicked is active
  log,       \* the failure this step logs ("": none)
  probe,     \* the function applied in this step, its argument and result
  click_analytics, \* ClickHouse table click_analytics, in insertion order
  sessions,  \* Redis keys session:<code>:<session>
  ah         \* per analytics ProcessClick call: position and locals

vars == << db, nextId, scache, rcache, now, sv, slast, rv, rlast, incs, hist,
           down, nres, pubs, published, inbox, records, subscribed, log, probe,
           click_analytics, sessions, ah >>

\* the click-event pipeline and the state of the backends
avars == << click_analytics, sessions, ah >>
evars == << down, nres, pubs, published, inbox, records, subscribed, avars >>

\* ------------------------------------------------------- pure functions

\* the syntax check with the upper limit one too high
validateShortCode_UpTo11(shortCode) ==
  /\ Len(shortCode) >= MinCodeLen
  /\ Len(shortCode) <= MaxCodeLen + 1
  /\ \A i \in 1..Len(shortCode) : shortCode[i] \in Alnum

\* the syntax check on the length alone
validateShortCode_LengthOnly(shortCode) ==
  /\ Len(shortCode) >= MinCodeLen
  /\ Len(shortCode) <= MaxCodeLen

\* URLService.validateShortCode / RedirectService.validateShortCode
validateShortCode(shortCode) ==
  /\ Len(shortCode) >= MinCodeLen
  /\ Len(shortCode) <= MaxCodeLen
  /\ \A i \in 1..Len(shortCode) : shortCode[i] \in Alnum

\* URLService.validateURL
validateURL(longURL) ==
  /\ longURL # NoUrl
  /\ longURL.scheme \in { "http", "https" }
  /\ longURL.host # ""

\* net.ParseIP returning nil
NoIP == [ v |-> 0, b |-> << >> ]

\* what net.SplitHostPort and net.ParseIP make of a host: the address as
\* [v, b] with b its bytes (IPv4) or 16-bit groups (IPv6), or NoIP.  A host
\* with a colon and no port, such as [::1], fails SplitHostPort and leaves the
\* empty string, which is no address; strings being atoms here, the parse of
\* each host the model uses is listed
HostIP(host) ==
  CASE host \in { "127.0.0.1", "127.0.0.1:8080" } -> [ v |-> 4, b |-> << 127, 0, 0, 1 >> ]
    [] host = "127.0.0.2" -> [ v |-> 4, b |-> << 127, 0, 0, 2 >> ]
    [] host \in { "10.0.0.1", "10.0.0.1:8080" } -> [ v |-> 4, b |-> << 10, 0, 0, 1 >> ]
    [] host = "172.16.0.1" -> [ v |-> 4, b |-> << 172, 16, 0, 1 >> ]
    [] host = "172.32.0.1" -> [ v |-> 4, b |-> << 172, 32, 0, 1 >> ]
    [] host = "192.168.1.1" -> [ v |-> 4, b |-> << 192, 168, 1, 1 >> ]
    [] host = "8.8.8.8" -> [ v |-> 4, b |-> << 8, 8, 8, 8 >> ]
    [] host = "[::1]:8080" -> [ v |-> 6, b |-> << 0, 0, 0, 0, 0, 0, 0, 1 >> ]
    [] host = "[fd00::1]:8080" -> [ v |-> 6, b |-> << 64768, 0, 0, 0, 0, 0, 0, 1 >> ]
    [] OTHER -> NoIP

\* strings.Contains(host, sub) for the hosts the model uses
Contains(host, sub) ==
  CASE sub = "localhost" -> host \in { "localhost", "localhost:8080" }
    [] sub = "127.0.0.1" -> host \in { "127.0.0.1", "127.0.0.1:8080" }
    [] OTHER -> FALSE

\* net.IP.IsPrivate: 10/8, 172.16/12, 192.168/16, fc00::/7
IsPrivate(ip) ==
  IF ip.v = 4
    THEN \/ ip.b[1] = 10
         \/ ip.b[1] = 172 /\ ip.b[2] \div 16 = 1
         \/ ip.b[1] = 192 /\ ip.b[2] = 168
    ELSE ip.b[1] \div 512 = 126

\* ip.Mask(net.CIDRMask(ones, 32)).Equal(network) with a network that ends in
\* zero bytes: an IPv4 mask applied to an address that is not IPv4 gives nil
MaskEqual(ip, ones, network) ==
  /\ ip.v = 4
  /\ \A i \in 1..4 :
       LET keep == IF ones >= 8 * i THEN 256
                   ELSE IF ones <= 8 * (i - 1) THEN 1
                   ELSE 2 ^ (ones - 8 * (i - 1))
           step == 256 \div keep
       IN  (ip.b[i] \div step) * step = network[i]

\* RedirectService.isPrivateIP
isPrivateIP(host) ==
  LET ip == HostIP(host)
  IN  /\ ip # NoIP
      /\ \/ IsPrivate(ip)
         \/ MaskEqual(ip, 8, << 10, 0, 0, 0 >>)
         \/ MaskEqual(ip, 12, << 172, 16, 0, 0 >>)
         \/ MaskEqual(ip, 16, << 192, 168, 0, 0 >>)

\* RedirectService.validateDestinationURL
validateDestinationURL(longURL) ==
  /\ longURL.scheme \in { "http", "https" }
  /\ longURL.host # ""
  /\ ~isPrivateIP(longURL.host)
  /\ ~Contains(longURL.host, "localhost")
  /\ ~Contains(longURL.host, "127.0.0.1")

\* generateShortCode: charset[int(b) % len(charset)] for each byte
CodeOfBytes(bytes) ==
  [ i \in 1..CodeLength |-> charset[(bytes[i] % Len(charset)) + 1] ]

\* an access check that lets every caller through
CanAccess_Any(url, userID) == TRUE

\* URL.CanAccess
CanAccess(url, userID) == url.user_id = userID

\* URL.IsExpired: time.Now().After(*u.ExpiresAt)
IsExpired(expires_at, t) ==
  /\ expires_at # Null
  /\ t > expires_at

\* ----------------------------------------------------- primary store

RowsByCode(shortCode) == { r \in db : r.short_code = shortCode }

\* GetURLByShortCode: WHERE short_code = $1 AND is_active = true
GetURLByShortCode(shortCode) ==
  { r \in db : r.short_code = shortCode /\ r.is_active }

\* an INSERT into a table without the UNIQUE constraint on short_code
CreateURLOk_NoUnique(shortCode) == TRUE

\* CreateURL: INSERT ... RETURNING id, created_at under UNIQUE(short_code)
CreateURLOk(shortCode) == RowsByCode(shortCode) = {}

CreateURL(shortCode, longURL, userID, expiresAt) ==
  db \cup { [ id |-> nextId, short_code |-> shortCode, long_url |-> longURL,
              user_id |-> userID, expires_at |-> expiresAt,
              click_count |-> 0, is_active |-> TRUE ] }

\* DeleteURL: UPDATE SET is_active = false WHERE short_code = $1 AND user_id = $2
DeleteURLRows(shortCode, userID) ==
  { r \in db : r.short_code = shortCode /\ r.user_id = userID }

DeleteURLdb(shortCode, userID) ==
  { IF r \in DeleteURLRows(shortCode, userID)
      THEN [ r EXCEPT !.is_active = FALSE ] ELSE r : r \in db }

\* a click-count update that writes the whole row back as active
IncrementDb_Reactivate(shortCode) ==
  { IF r.short_code = shortCode
      THEN [ r EXCEPT !.click_count = @ + 1, !.is_active = TRUE ] ELSE r : r \in db }

\* a read-modify-write increment that starts from the cached snapshot
IncrementDb_Snapshot(shortCode) ==
  { IF r.short_code = shortCode
      THEN [ r EXCEPT !.click_count =
               (IF rcache[shortCode] # None THEN rcache[shortCode].click_count ELSE @) + 1 ]
      ELSE r : r \in db }

\* an increment that skips soft-deleted mappings
IncrementDb_ActiveOnly(shortCode) ==
  { IF r.short_code = shortCode /\ r.is_active
      THEN [ r EXCEPT !.click_count = @ + 1 ] ELSE r : r \in db }

\* UPDATE SET click_count = click_count + 1 WHERE short_code = $1
IncrementDb(shortCode) ==
  { IF r.short_code = shortCode
      THEN [ r EXCEPT !.click_count = @ + 1 ] ELSE r : r \in db }

\* ------------------------------------------------------------- cache

\* a key is readable while it is stored; Redis removes it when its TTL has
\* elapsed or under memory pressure (action CacheExpire)
CacheLive(entry) == entry # None

\* the clock counts hours
TTL24h == 24

\* ttl := time.Hour * 24; if the mapping expires before time.Now().Add(ttl),
\* ttl = time.Until(expires_at)
ShortenerTTL(expiresAt) ==
  IF expiresAt # Null /\ expiresAt < now + TTL24h THEN expiresAt - now ELSE TTL24h

\* s.redis.Set(ctx, cacheKey, entryJSON, 24*time.Hour)
ResolverTTL(expiresAt) == TTL24h

\* URLService.cacheURL / the urlData map of ShortenURL
cacheURL(longURL, userID, isActive, expiresAt) ==
  [ long_url |-> longURL, user_id |-> userID,
    is_active |-> isActive, expires_at |-> expiresAt ]

\* a conversion that loses the owner of the cached mapping
cacheToURL_NoUser(shortCode, data) ==
  [ id |-> 0, short_code |-> shortCode, long_url |-> data.long_url,
    user_id |-> "", expires_at |-> data.expires_at,
    click_count |-> 0, is_active |-> data.is_active ]

\* URLService.cacheToURL
cacheToURL(shortCode, data) ==
  [ id |-> 0, short_code |-> shortCode, long_url |-> data.long_url,
    user_id |-> data.user_id, expires_at |-> data.expires_at,
    click_count |-> 0, is_active |-> data.is_active ]

\* URLService.dbToDomainURL
dbToDomainURL(row) == row

\* store.CacheEntry written by the Resolver, 24*time.Hour
CacheEntry(url) ==
  [ short_code |-> url.short_code, long_url |-> url.long_url,
    expires_at |-> url.expires_at,
    click_count |-> url.click_count, is_active |-> url.is_active ]

\* the domain.URL built from a CacheEntry on a cache hit
EntryToURL(entry) ==
  [ id |-> 0, short_code |-> entry.short_code, long_url |-> entry.long_url,
    user_id |-> "", expires_at |-> entry.expires_at,
    click_count |-> entry.click_count, is_active |-> entry.is_active ]

\* ------------------------------------------------------------ codes
MintCodes == { CodeOfBytes(b) : b \in RandomDraws }
Codes == (Aliases \ { NoAlias }) \cup MintCodes
ValidCodes == { c \in Codes : validateShortCode(c) }

NoURL == [ id |-> 0, short_code |-> NoAlias, long_url |-> NoUrl, user_id |-> "",
           expires_at |-> Null, click_count |-> 0, is_active |-> FALSE ]

\* locals of a Shortener call; alias, fresh, afterDelete and afterUpdate record
\* what held when the call started
IdleS == [ pc |-> "idle", op |-> "", code |-> NoAlias, user |-> "",
           url |-> NoUrl, exp |-> Null, attempts |-> 0, ent |-> NoURL,
           alias |-> FALSE, fresh |-> FALSE,
           afterDelete |-> FALSE, afterUpdate |-> NoUrl ]

NoSRes == [ op |-> "", code |-> NoAlias, user |-> "", arg |-> NoUrl,
            alias |-> FALSE, fresh |-> FALSE, status |-> "", url |-> NoURL,
            afterDelete |-> FALSE, afterUpdate |-> NoUrl, served |-> "" ]

SRes(l, status, url, served) ==
  [ op |-> l.op, code |-> l.code, user |-> l.user, arg |-> l.url,
    alias |-> l.alias, fresh |-> l.fresh, status |-> status, url |-> url,
    afterDelete |-> l.afterDelete, afterUpdate |-> l.afterUpdate, served |-> served ]

\* locals of a Resolver call; t0, afterDelete and afterUpdate record what held
\* when the call started
IdleR == [ pc |-> "idle", code |-> NoAlias, ent |-> NoURL, hit |-> FALSE,
           t0 |-> 0, afterDelete |-> FALSE, afterUpdate |-> NoUrl ]

IdleTask == [ pc |-> "idle", code |-> NoAlias, ent |-> None ]

RRes(l, found, expired, longURL, clickCount, error) ==
  [ code |-> l.code, found |-> found, expired |-> expired, long_url |-> longURL,
    click_count |-> clickCount, error |-> error, hit |-> l.hit, t0 |-> l.t0,
    afterDelete |-> l.afterDelete, afterUpdate |-> l.afterUpdate ]

\* no validator applied on its own
NoProbe == [ fn |-> "", arg |-> << >>, out |-> FALSE ]

\* every backend up, no resolution answered, nothing published, no subscription
\* the analytics service: two ProcessClick calls at a time (the subscription
\* handler and the RPC handler)
Handlers == { "h1", "h2" }
NoClick == [ short_code |-> << >>, session_id |-> "", timestamp |-> 0 ]
IdleH == [ pc |-> "idle", event |-> NoClick, isUnique |-> FALSE,
           err |-> FALSE, after |-> FALSE ]

NoAnalytics ==
  /\ click_analytics = << >>
  /\ sessions = {}
  /\ ah = [ h \in Handlers |-> IdleH ]

NoEvents ==
  /\ probe = NoProbe
  /\ NoAnalytics
  /\ down = {}
  /\ nres = 0
  /\ pubs = {} /\ published = {} /\ inbox = {} /\ records = {}
  /\ subscribed = FALSE
  /\ log = ""

Init ==
  /\ db = {}
  /\ nextId = 1
  /\ scache = [ c \in Codes |-> None ]
  /\ rcache = [ c \in Codes |-> None ]
  /\ now = 0
  /\ sv = [ p \in ShortenerCalls |-> IdleS ]
  /\ slast = NoSRes
  /\ rv = [ r \in ResolverCalls |-> IdleR ]
  /\ rlast = None
  /\ incs = [ k \in Tasks |-> IdleTask ]
  /\ hist = [ deleted |-> {}, updated |-> [ c \in Codes |-> NoUrl ],
              shortened |-> [ c \in Codes |-> None ] ]
  /\ NoEvents

\* a step that no backend fails in and that leaves the click-event pipeline alone
Quiet == log' = "" /\ probe' = NoProbe /\ UNCHANGED evars

\* redis Client.Set(key, value, ttl) for a mapping that expires at expiresAt:
\* an expiration that is not positive stores the key without expiry
SetCall(key, expiresAt, ttl) ==
  [ fn |-> "Set", arg |-> [ key |-> key, expires_at |-> expiresAt ],
    out |-> [ ttl |-> ttl, expiry |-> ttl > 0 ] ]

\* a step that writes a cache key
QuietSet(call) == log' = "" /\ probe' = call /\ UNCHANGED evars

\* ------------------------------------------------------- bookkeeping
SFinish(p, status, url, served) ==
  /\ slast' = SRes(sv[p], status, url, served)
  /\ sv' = [ sv EXCEPT ![p] = IdleS ]

SGoto(p, l) == sv' = [ sv EXCEPT ![p] = l ] /\ slast' = NoSRes

\* a step of the Shortener: the Resolver keeps its state and returns nothing
ResolverIdle == rlast' = None /\ UNCHANGED << rcache, rv, incs >> /\ Quiet

ResolverIdleSet(call) ==
  rlast' = None /\ UNCHANGED << rcache, rv, incs >> /\ QuietSet(call)

\* ------------------------------------------------- URLService.ShortenURL
\* validation, then the alias availability check or the start of minting
ShortenURL(p, longURL, userID, customAlias, expirationTime) ==
  /\ sv[p].pc = "idle"
  /\ LET l == [ IdleS EXCEPT !.op = "ShortenURL", !.code = customAlias, !.user = userID,
                             !.url = longURL, !.exp = expirationTime,
                             !.alias = (customAlias # NoAlias),
                             !.fresh = (RowsByCode(customAlias) = {}) ]
     IN  IF ~validateURL(longURL)
           THEN /\ slast' = SRes(l, "ErrInvalidURL", NoURL, "")
                /\ UNCHANGED sv
         ELSE IF customAlias # NoAlias
           THEN IF ~validateShortCode(customAlias)
                  THEN /\ slast' = SRes(l, "ErrInvalidShortCode", NoURL, "")
                       /\ UNCHANGED sv
                ELSE IF GetURLByShortCode(customAlias) # {}
                  THEN /\ slast' = SRes(l, "ErrCustomAliasUsed", NoURL, "")
                       /\ UNCHANGED sv
                ELSE SGoto(p, [ l EXCEPT !.pc = "create" ])
         ELSE SGoto(p, [ l EXCEPT !.pc = "generate" ])
  /\ UNCHANGED << db, nextId, scache, now, hist >>
  /\ ResolverIdle

\* one iteration of the loop of generateShortCode
generateShortCode(p, bytes) ==
  /\ sv[p].pc = "generate"
  /\ sv[p].attempts < MaxAttempts
  /\ LET code == CodeOfBytes(bytes)
     IN  IF GetURLByShortCode(code) = {}
           THEN SGoto(p, [ sv[p] EXCEPT !.pc = "create", !.code = code ])
         ELSE IF sv[p].attempts + 1 < MaxAttempts
           THEN SGoto(p, [ sv[p] EXCEPT !.attempts = @ + 1 ])
         ELSE SFinish(p, "ErrGenerateFailed", NoURL, "")
  /\ UNCHANGED << db, nextId, scache, now, hist >>
  /\ ResolverIdle

\* s.db.CreateURL(dbURL)
ShortenCreate(p) ==
  /\ sv[p].pc = "create"
  /\ IF CreateURLOk(sv[p].code)
       THEN /\ db' = CreateURL(sv[p].code, sv[p].url, sv[p].user, sv[p].exp)
            /\ nextId' = nextId + 1
            /\ SGoto(p, [ sv[p] EXCEPT !.pc = "cache",
                     !.ent = CHOOSE r \in db' : r.id = nextId ])
       ELSE /\ SFinish(p, "ErrSaveFailed", NoURL, "")
            /\ UNCHANGED << db, nextId >>
  /\ UNCHANGED << scache, now, hist >>
  /\ ResolverIdle

\* s.cache.SetJSON(cacheKey, urlData, ttl) and the return
ShortenCache(p) ==
  /\ sv[p].pc = "cache"
  /\ scache' = [ scache EXCEPT ![sv[p].code] =
                   cacheURL(sv[p].url, sv[p].user, TRUE, sv[p].exp) ]
  /\ SFinish(p, "ok", dbToDomainURL(sv[p].ent), "db")
  /\ hist' = [ hist EXCEPT !.shortened[sv[p].code] =
                 [ long_url |-> sv[p].url, user_id |-> sv[p].user ] ]
  /\ UNCHANGED << db, nextId, now >>
  /\ ResolverIdleSet(SetCall("urlshortener:url", sv[p].exp, ShortenerTTL(sv[p].exp)))

\* ------------------------------------------------------ URLService.GetURL
\* what follows a successful GetURL inside GetURL, UpdateURL and DeleteURL
AfterGet(p, l, url, served) ==
  IF l.op = "GetURL"
    THEN /\ slast' = SRes(l, "ok", url, served)
         /\ sv' = [ sv EXCEPT ![p] = IdleS ]
  ELSE IF l.op = "UpdateURL"
    THEN SGoto(p, [ l EXCEPT !.pc = "update", !.ent = url ])
  ELSE SGoto(p, [ l EXCEPT !.pc = "delete", !.ent = url ])

\* the cache read that opens GetURL, UpdateURL and DeleteURL
GetURL(p, op, shortCode, userID, newLongURL) ==
  /\ sv[p].pc = "idle"
  /\ LET l == [ IdleS EXCEPT !.op = op, !.code = shortCode, !.user = userID,
                             !.url = newLongURL,
                             !.afterDelete = (shortCode \in hist.deleted),
                             !.afterUpdate = hist.updated[shortCode] ]
     IN  IF CacheLive(scache[shortCode])
           THEN LET url == cacheToURL(shortCode, scache[shortCode])
                IN  IF userID # "" /\ ~CanAccess(url, userID)
                      THEN /\ slast' = SRes(l, "ErrUnauthorized", NoURL, "cache")
                           /\ UNCHANGED sv
                      ELSE AfterGet(p, l, url, "cache")
           ELSE SGoto(p, [ l EXCEPT !.pc = "get_db" ])
  /\ UNCHANGED << db, nextId, scache, now, hist >>
  /\ ResolverIdle

\* s.db.GetURLByShortCode(shortCode) and the authorization check
GetURLDb(p) ==
  /\ sv[p].pc = "get_db"
  /\ LET found == GetURLByShortCode(sv[p].code)
     IN  IF found = {}
           THEN SFinish(p, "ErrURLNotFound", NoURL, "db")
         ELSE LET url == dbToDomainURL(CHOOSE r \in found : TRUE)
              IN  IF sv[p].user # "" /\ ~CanAccess(url, sv[p].user)
                    THEN SFinish(p, "ErrUnauthorized", NoURL, "db")
                    ELSE SGoto(p, [ sv[p] EXCEPT !.pc = "get_fill", !.ent = url ])
  /\ UNCHANGED << db, nextId, scache, now, hist >>
  /\ ResolverIdle

\* s.cacheURL(url) and the return of GetURL
GetURLFill(p) ==
  /\ sv[p].pc = "get_fill"
  /\ LET url == sv[p].ent
     IN  /\ scache' = [ scache EXCEPT ![sv[p].code] =
                          cacheURL(url.long_url, url.user_id, url.is_active, url.expires_at) ]
         /\ AfterGet(p, sv[p], url, "db")
         /\ ResolverIdleSet(SetCall("urlshortener:url", url.expires_at,
                                    ShortenerTTL(url.expires_at)))
  /\ UNCHANGED << db, nextId, now, hist >>

\* --------------------------------------------------- URLService.UpdateURL
\* the part after GetURL: no primary-store write, only s.cache.Delete
UpdateURL(p) ==
  /\ sv[p].pc = "update"
  /\ LET newLongURL == sv[p].url
     IN  IF newLongURL # NoUrl /\ ~validateURL(newLongURL)
           THEN /\ SFinish(p, "ErrInvalidURL", NoURL, "")
                /\ UNCHANGED << scache, hist >>
         ELSE IF newLongURL = NoUrl
           THEN /\ SFinish(p, "ok", sv[p].ent, "")
                /\ UNCHANGED << scache, hist >>
         ELSE /\ scache' = [ scache EXCEPT ![sv[p].code] = None ]
              /\ SFinish(p, "ok", [ sv[p].ent EXCEPT !.long_url = newLongURL ], "")
              /\ hist' = [ hist EXCEPT !.updated[sv[p].code] = newLongURL ]
  /\ UNCHANGED << db, nextId, now >>
  /\ ResolverIdle

\* --------------------------------------------------- URLService.DeleteURL
\* s.db.DeleteURL(shortCode, userID)
DeleteURL(p) ==
  /\ sv[p].pc = "delete"
  /\ IF DeleteURLRows(sv[p].code, sv[p].user) = {}
       THEN /\ SFinish(p, "ErrDeleteFailed", NoURL, "")
            /\ UNCHANGED db
       ELSE /\ db' = DeleteURLdb(sv[p].code, sv[p].user)
            /\ SGoto(p, [ sv[p] EXCEPT !.pc = "delete_cache" ])
  /\ UNCHANGED << nextId, scache, now, hist >>
  /\ ResolverIdle

\* s.cache.Delete(cacheKey) and the return of DeleteURL
DeleteURLCache(p) ==
  /\ sv[p].pc = "delete_cache"
  /\ scache' = [ scache EXCEPT ![sv[p].code] = None ]
  /\ SFinish(p, "ok", NoURL, "")
  /\ hist' = [ hist EXCEPT !.deleted = @ \cup { sv[p].code } ]
  /\ UNCHANGED << db, nextId, now >>
  /\ ResolverIdle

\* ---------------------------------------------------------- Resolver
\* a step of the Resolver: the Shortener keeps its state and returns nothing
ShortenerIdle == slast' = NoSRes /\ UNCHANGED << nextId, scache, sv, hist >> /\ Quiet

ShortenerIdleSet(call) ==
  slast' = NoSRes /\ UNCHANGED << nextId, scache, sv, hist >> /\ QuietSet(call)

RFinish(r, l, found, expired, longURL, clickCount, error) ==
  /\ rlast' = RRes(l, found, expired, longURL, clickCount, error)
  /\ rv' = [ rv EXCEPT ![r] = IdleR ]

RGoto(r, l) == rv' = [ rv EXCEPT ![r] = l ] /\ rlast' = None

\* the expiry check with the comparison turned around
StoreExpired_Before(expiresAt) == expiresAt # Null /\ now < expiresAt

\* store.ResolveURL: entry.ExpiresAt != nil && time.Now().After(*entry.ExpiresAt)
StoreExpired(expiresAt) == expiresAt # Null /\ now > expiresAt

\* URL.IsValidForRedirect
IsValidForRedirect(url) ==
  IF ~url.is_active THEN "ErrURLNotFound"
  ELSE IF IsExpired(url.expires_at, now) THEN "ErrURLExpired"
  ELSE "ok"

\* RedirectService.ResolveURL up to the cache read of RedirectStore.ResolveURL
ResolveURL(r, shortCode) ==
  /\ rv[r].pc = "idle"
  /\ LET l == [ IdleR EXCEPT !.code = shortCode, !.t0 = now,
                             !.afterDelete = (shortCode \in hist.deleted),
                             !.afterUpdate = IF shortCode \in Codes
                                               THEN hist.updated[shortCode] ELSE NoUrl ]
     IN  IF ~validateShortCode(shortCode)
           THEN /\ rlast' = RRes(l, FALSE, FALSE, NoUrl, 0, "invalid short code")
                /\ UNCHANGED rv
         ELSE IF CacheLive(rcache[shortCode])
           THEN IF StoreExpired(rcache[shortCode].expires_at)
                  THEN RGoto(r, [ l EXCEPT !.pc = "expired_del", !.hit = TRUE ])
                  ELSE RGoto(r, [ l EXCEPT !.pc = "domain", !.hit = TRUE,
                                           !.ent = EntryToURL(rcache[shortCode]) ])
         ELSE RGoto(r, [ l EXCEPT !.pc = "db" ])
  /\ UNCHANGED << db, rcache, now, incs >>
  /\ ShortenerIdle

\* s.redis.Del(ctx, cacheKey); return "URL expired"
ResolveExpiredDel(r) ==
  /\ rv[r].pc = "expired_del"
  /\ rcache' = [ rcache EXCEPT ![rv[r].code] = None ]
  /\ RFinish(r, rv[r], TRUE, TRUE, NoUrl, 0, "Short URL has expired")
  /\ UNCHANGED << db, now, incs >>
  /\ ShortenerIdle

\* SELECT ... WHERE short_code = $1 AND is_active = true, then the expiry check
ResolveDb(r) ==
  /\ rv[r].pc = "db"
  /\ LET found == GetURLByShortCode(rv[r].code)
     IN  IF found = {}
           THEN RFinish(r, rv[r], FALSE, FALSE, NoUrl, 0, "Short URL not found")
         ELSE LET url == CHOOSE x \in found : TRUE
              IN  IF StoreExpired(url.expires_at)
                    THEN RFinish(r, rv[r], TRUE, TRUE, NoUrl, 0, "Short URL has expired")
                    ELSE RGoto(r, [ rv[r] EXCEPT !.pc = "set", !.ent = url ])
  /\ UNCHANGED << db, rcache, now, incs >>
  /\ ShortenerIdle

\* s.redis.Set(ctx, cacheKey, entryJSON, 24*time.Hour)
ResolveSet(r) ==
  /\ rv[r].pc = "set"
  /\ rcache' = [ rcache EXCEPT ![rv[r].code] = CacheEntry(rv[r].ent) ]
  /\ RGoto(r, [ rv[r] EXCEPT !.pc = "domain" ])
  /\ UNCHANGED << db, now, incs >>
  /\ ShortenerIdleSet(SetCall("url:short", rv[r].ent.expires_at,
                              ResolverTTL(rv[r].ent.expires_at)))

FreeTasks(T) == { k \in T : incs[k].pc = "idle" }

\* business rules, destination check, go IncrementClickCount, and the return
ResolveDomain(r, T) ==
  /\ rv[r].pc = "domain"
  /\ LET url == rv[r].ent
         valid == IsValidForRedirect(url)
     IN  IF valid = "ErrURLExpired"
           THEN /\ RFinish(r, rv[r], TRUE, TRUE, url.long_url, 0, "URL has expired")
                /\ UNCHANGED incs
         ELSE IF valid # "ok"
           THEN /\ RFinish(r, rv[r], FALSE, FALSE, NoUrl, 0, valid)
                /\ UNCHANGED incs
         ELSE IF ~validateDestinationURL(url.long_url)
           THEN /\ RFinish(r, rv[r], FALSE, FALSE, NoUrl, 0, "invalid destination URL")
                /\ UNCHANGED incs
         ELSE /\ FreeTasks(T) # {}
              /\ LET k == CHOOSE x \in FreeTasks(T) : TRUE
                 IN  incs' = [ incs EXCEPT ![k] =
                                 [ pc |-> "db", code |-> rv[r].code, ent |-> None ] ]
              /\ RFinish(r, rv[r], TRUE, FALSE, url.long_url, url.click_count, "")
  /\ UNCHANGED << db, rcache, now >>
  /\ ShortenerIdle

\* ------------------------------------- RedirectStore.IncrementClickCount
\* UPDATE url_mappings SET click_count = click_count + 1
IncrementUpdate(k) ==
  /\ incs[k].pc = "db"
  /\ db' = IncrementDb(incs[k].code)
  /\ incs' = [ incs EXCEPT ![k].pc = "get" ]
  /\ rlast' = None
  /\ UNCHANGED << rcache, now, rv >>
  /\ ShortenerIdle

\* the increment, while the counter is below the bound of the model
IncrementClickCount(k) ==
  /\ \A row \in RowsByCode(incs[k].code) : row.click_count < MaxClicks
  /\ IncrementUpdate(k)

\* s.redis.Get(ctx, cacheKey) and entry.ClickCount++
IncrementGet(k) ==
  /\ incs[k].pc = "get"
  /\ IF CacheLive(rcache[incs[k].code])
       THEN incs' = [ incs EXCEPT ![k].pc = "set",
                        ![k].ent = [ rcache[incs[k].code] EXCEPT !.click_count = @ + 1 ] ]
       ELSE incs' = [ incs EXCEPT ![k] = IdleTask ]
  /\ rlast' = None
  /\ UNCHANGED << db, rcache, now, rv >>
  /\ ShortenerIdle

\* s.redis.Set(ctx, cacheKey, entryJSON, 24*time.Hour)
IncrementSet(k) ==
  /\ incs[k].pc = "set"
  /\ rcache' = [ rcache EXCEPT ![incs[k].code] = incs[k].ent ]
  /\ incs' = [ incs EXCEPT ![k] = IdleTask ]
  /\ rlast' = None
  /\ UNCHANGED << db, now, rv >>
  /\ ShortenerIdleSet(SetCall("url:short", incs[k].ent.expires_at,
                              ResolverTTL(incs[k].ent.expires_at)))

\* RedirectStore.InvalidateCache
InvalidateCache(shortCode) ==
  /\ rcache[shortCode] # None
  /\ rcache' = [ rcache EXCEPT ![shortCode] = None ]
  /\ rlast' = None
  /\ UNCHANGED << db, now, rv, incs >>
  /\ ShortenerIdle

\* ------------------------------------------------------------------ Redis
\* a key of either projection reaches the end of its TTL or is evicted
CacheExpire(shortCode) ==
  /\ \/ scache[shortCode] # None /\ scache' = [ scache EXCEPT ![shortCode] = None ]
                                /\ UNCHANGED rcache
     \/ rcache[shortCode] # None /\ rcache' = [ rcache EXCEPT ![shortCode] = None ]
                                /\ UNCHANGED scache
  /\ slast' = NoSRes /\ rlast' = None
  /\ UNCHANGED << db, nextId, now, sv, rv, incs, hist >>
  /\ Quiet

\* ------------------------------------------------------------------ clock
Tick ==
  /\ now < MaxTime
  /\ now' = now + 1
  /\ slast' = NoSRes /\ rlast' = None
  /\ UNCHANGED << db, nextId, scache, rcache, sv, rv, incs, hist >>
  /\ Quiet

\* the steps of a Shortener call, but for the minting loop
ShortenerStep(p, callers, aliases) ==
  \/ \E u \in LongURLs, o \in Owners, a \in aliases, e \in Expirations :
       ShortenURL(p, u, o, a, e)
  \/ ShortenCreate(p)
  \/ ShortenCache(p)
  \/ \E c \in ValidCodes, o \in callers : GetURL(p, "GetURL", c, o, NoUrl)
  \/ \E c \in ValidCodes, o \in callers, u \in NewLongURLs : GetURL(p, "UpdateURL", c, o, u)
  \/ \E c \in ValidCodes, o \in callers : GetURL(p, "DeleteURL", c, o, NoUrl)
  \/ GetURLDb(p)
  \/ GetURLFill(p)
  \/ UpdateURL(p)
  \/ DeleteURL(p)
  \/ DeleteURLCache(p)

ResolverStep(T) ==
  \/ \E r \in ResolverCalls :
       \/ \E c \in Codes : ResolveURL(r, c)
       \/ ResolveExpiredDel(r)
       \/ ResolveDb(r)
       \/ ResolveSet(r)
       \/ ResolveDomain(r, T)
  \/ \E k \in T :
       \/ IncrementClickCount(k)
       \/ IncrementGet(k)
       \/ IncrementSet(k)
  \/ \E c \in ValidCodes : InvalidateCache(c)

\* the whole system: Shortener calls one at a time, every code a custom alias
Next ==
  \/ Tick
  \/ \E c \in ValidCodes : CacheExpire(c)
  \/ \E p \in SerialCalls : ShortenerStep(p, SerialCallers, SerialAliases)
  \/ ResolverStep(SerialTasks)

Spec == Init /\ [][Next]_vars

\* the Shortener alone, its handlers running concurrently, codes minted or
\* custom; no step of the Shortener reads the clock
NextShortener ==
  \/ \E c \in ValidCodes : CacheExpire(c)
  \/ \E p \in ShortenerCalls :
       \/ ShortenerStep(p, Callers, Aliases)
       \/ \E b \in RandomDraws : generateShortCode(p, b)

SpecShortener == Init /\ [][NextShortener]_vars

\* ------------------------------------------------- click counting
\* the click_count column of a code, and the increments scheduled for it that
\* have not reached the primary store yet
ClickCount(shortCode) ==
  IF RowsByCode(shortCode) = {} THEN 0
  ELSE (CHOOSE row \in RowsByCode(shortCode) : TRUE).click_count

Pending(shortCode) ==
  Cardinality({ k \in Tasks : incs[k].pc = "db" /\ incs[k].code = shortCode })

\* the store after ShortenURL(UrlA, u1, alias aaaaaaa) and the expiry of its
\* cache key
Mapped ==
  [ id |-> 1, short_code |-> AliasA7, long_url |-> UrlA, user_id |-> "u1",
    expires_at |-> Null, click_count |-> 0, is_active |-> TRUE ]

InitClicks ==
  /\ db = { Mapped }
  /\ nextId = 2
  /\ scache = [ c \in Codes |-> None ]
  /\ rcache = [ c \in Codes |-> None ]
  /\ now = 0
  /\ sv = [ p \in ShortenerCalls |-> IdleS ]
  /\ slast = NoSRes
  /\ rv = [ r \in ResolverCalls |-> IdleR ]
  /\ rlast = None
  /\ incs = [ k \in Tasks |-> IdleTask ]
  /\ hist = [ deleted |-> {}, updated |-> [ c \in Codes |-> NoUrl ],
              shortened |-> [ c \in Codes |->
                 IF c = AliasA7 THEN [ long_url |-> UrlA, user_id |-> "u1" ] ELSE None ] ]
  /\ NoEvents

\* DeleteURL by the owner
DeleteStep(p) ==
  \/ \E c \in ValidCodes, o \in Owners : GetURL(p, "DeleteURL", c, o, NoUrl)
  \/ GetURLDb(p)
  \/ GetURLFill(p)
  \/ DeleteURL(p)
  \/ DeleteURLCache(p)

\* UpdateURL and DeleteURL by the owner
ManageStep(p) ==
  \/ \E c \in ValidCodes, o \in Owners, u \in NewLongURLs : GetURL(p, "UpdateURL", c, o, u)
  \/ UpdateURL(p)
  \/ DeleteStep(p)

\* the Resolver with concurrent increments; at most MaxResolves resolutions
\* succeed
ResolverStepClicks ==
  \/ \E r \in ResolverCalls :
       \/ \E c \in Codes : ResolveURL(r, c)
       \/ ResolveDb(r)
       \/ ResolveSet(r)
       \/ /\ ClickCount(rv[r].code) + Pending(rv[r].code) < MaxResolves
          /\ ResolveDomain(r, Tasks)
  \/ \E k \in Tasks :
       \/ IncrementUpdate(k)
       \/ IncrementGet(k)
       \/ IncrementSet(k)

NextClicks ==
  \/ \E c \in ValidCodes : CacheExpire(c)
  \/ \E p \in SerialCalls : ManageStep(p)
  \/ ResolverStepClicks

SpecClicks == InitClicks /\ [][NextClicks]_vars

\* the same without UpdateURL, every scheduled increment goroutine getting to
\* run
NextCounted ==
  \/ \E c \in ValidCodes : CacheExpire(c)
  \/ \E p \in SerialCalls : DeleteStep(p)
  \/ ResolverStepClicks

SpecClicksFair ==
  /\ InitClicks /\ [][NextCounted]_vars
  /\ \A k \in Tasks : WF_vars(IncrementUpdate(k))

\* ------------------------------------------------------ click events
\* codes that fail the syntax check on their length
TooShort == << "a","b" >>
TooLong == << "a","a","a","a","a","a","a","a","a","a","a" >>
ResolveCodes == Codes \cup { TooShort, TooLong }

\* the mapping soft-deleted, with an expiry, and with a target the Resolver
\* refuses to redirect to
UrlLocal == [scheme |-> "http", host |-> "localhost", path |-> "/a"]
Deleted == [ Mapped EXCEPT !.is_active = FALSE ]
Expiring == [ Mapped EXCEPT !.expires_at = 0 ]
Unsafe == [ Mapped EXCEPT !.long_url = UrlLocal ]

\* the primary store empty or holding one of the mappings, nothing cached
InitEvents ==
  /\ db \in { {}, { Mapped }, { Deleted }, { Expiring }, { Unsafe } }
  /\ nextId = 2
  /\ scache = [ c \in Codes |-> None ]
  /\ rcache = [ c \in Codes |-> None ]
  /\ now = 0
  /\ sv = [ p \in ShortenerCalls |-> IdleS ]
  /\ slast = NoSRes
  /\ rv = [ r \in ResolverCalls |-> IdleR ]
  /\ rlast = None
  /\ incs = [ k \in Tasks |-> IdleTask ]
  /\ hist = [ deleted |-> IF db = { Deleted } THEN { AliasA7 } ELSE {},
              updated |-> [ c \in Codes |-> NoUrl ],
              shortened |-> [ c \in Codes |->
                 IF c = AliasA7 /\ db # {}
                   THEN [ long_url |-> (CHOOSE row \in db : TRUE).long_url,
                          user_id |-> "u1" ]
                   ELSE None ] ]
  /\ NoEvents

\* the click event of the n-th answered resolution, named after the function
\* that publishes it
ClickEvent(n, by) == [ res |-> n, by |-> by ]
ClickEvents == { ClickEvent(n, by) : n \in 1..MaxClicks,
                                     by \in { "publishClickEvent", "TrackClick" } }

\* the condition without its second half
Responding_Found == rlast # None /\ rlast.found

\* RedirectService.ResolveURL has returned result.Found && !result.Expired
Responding == rlast # None /\ rlast.found /\ ~rlast.expired

\* the rest of RedirectHandler.ResolveURL after a successful resolution:
\* go h.publishClickEvent and the response; when the caller is the gateway's
\* RedirectURL, its goroutine that calls Resolver.TrackClick
RespondResolved(gateway) ==
  /\ Responding
  /\ nres' = nres + 1
  /\ pubs' = pubs \cup { ClickEvent(nres + 1, "publishClickEvent") }
                  \cup IF gateway THEN { ClickEvent(nres + 1, "TrackClick") } ELSE {}
  /\ rlast' = None /\ slast' = NoSRes /\ log' = ""
  /\ probe' = NoProbe /\ UNCHANGED avars
  /\ UNCHANGED << db, nextId, scache, rcache, now, sv, rv, incs, hist,
                  down, published, inbox, records, subscribed >>

\* Client().Publish on url.clicked succeeds: the bus hands the message to the
\* subscriptions that are active and keeps nothing
Publish(e) ==
  /\ e \in pubs
  /\ pubs' = pubs \ { e }
  /\ published' = published \cup { e }
  /\ inbox' = IF subscribed THEN inbox \cup { e } ELSE inbox
  /\ rlast' = None /\ slast' = NoSRes /\ log' = ""
  /\ probe' = NoProbe /\ UNCHANGED avars
  /\ UNCHANGED << db, nextId, scache, rcache, now, sv, rv, incs, hist,
                  down, nres, records, subscribed >>

\* a failed publish answered to the caller of Resolve
PublishFail_Surfaced(e) ==
  /\ e \in pubs
  /\ pubs' = pubs \ { e }
  /\ log' = "Failed to publish click event"
  /\ rlast' = RRes(IdleR, FALSE, FALSE, NoUrl, 0, "Failed to publish click event")
  /\ slast' = NoSRes
  /\ probe' = NoProbe /\ UNCHANGED avars
  /\ UNCHANGED << db, nextId, scache, rcache, now, sv, rv, incs, hist,
                  down, nres, published, inbox, records, subscribed >>

\* Client().Publish fails: the goroutine logs and returns
PublishFail(e) ==
  /\ e \in pubs
  /\ pubs' = pubs \ { e }
  /\ log' = "Failed to publish click event"
  /\ rlast' = None /\ slast' = NoSRes
  /\ probe' = NoProbe /\ UNCHANGED avars
  /\ UNCHANGED << db, nextId, scache, rcache, now, sv, rv, incs, hist,
                  down, nres, published, inbox, records, subscribed >>

\* Microservice.Run: two seconds after the start, Broker.Subscribe("url.clicked")
Subscribe ==
  /\ ~subscribed
  /\ subscribed' = TRUE
  /\ rlast' = None /\ slast' = NoSRes /\ log' = ""
  /\ probe' = NoProbe /\ UNCHANGED avars
  /\ UNCHANGED << db, nextId, scache, rcache, now, sv, rv, incs, hist,
                  down, nres, pubs, published, inbox, records >>

\* the subscription handler: ProcessClick stores the click
ProcessClick(e) ==
  /\ e \in inbox
  /\ inbox' = inbox \ { e }
  /\ records' = records \cup { e }
  /\ rlast' = None /\ slast' = NoSRes /\ log' = ""
  /\ probe' = NoProbe /\ UNCHANGED avars
  /\ UNCHANGED << db, nextId, scache, rcache, now, sv, rv, incs, hist,
                  down, nres, pubs, published, subscribed >>

\* the subscription handler: ProcessClick fails, the handler logs and returns nil
ProcessClickFail(e) ==
  /\ e \in inbox
  /\ inbox' = inbox \ { e }
  /\ log' = "Failed to process click event"
  /\ rlast' = None /\ slast' = NoSRes
  /\ probe' = NoProbe /\ UNCHANGED avars
  /\ UNCHANGED << db, nextId, scache, rcache, now, sv, rv, incs, hist,
                  down, nres, pubs, published, records, subscribed >>

\* --------------------------------------------------------- outages
BackendFails(b) ==
  /\ b \notin down
  /\ down' = down \cup { b }
  /\ rlast' = None /\ slast' = NoSRes /\ log' = ""
  /\ probe' = NoProbe /\ UNCHANGED avars
  /\ UNCHANGED << db, nextId, scache, rcache, now, sv, rv, incs, hist,
                  nres, pubs, published, inbox, records, subscribed >>

BackendRecovers(b) ==
  /\ b \in down
  /\ down' = down \ { b }
  /\ rlast' = None /\ slast' = NoSRes /\ log' = ""
  /\ probe' = NoProbe /\ UNCHANGED avars
  /\ UNCHANGED << db, nextId, scache, rcache, now, sv, rv, incs, hist,
                  nres, pubs, published, inbox, records, subscribed >>

\* s.db.GetContext returns an error: return nil, fmt.Errorf("short URL not found"),
\* which RedirectService.ResolveURL answers as Found: false
ResolveDbDown(r) ==
  /\ rv[r].pc = "db"
  /\ RFinish(r, rv[r], FALSE, FALSE, NoUrl, 0, "Short URL not found")
  /\ UNCHANGED << db, rcache, now, incs >>
  /\ ShortenerIdle

\* s.db.ExecContext returns an error: the goroutine logs and ends
IncrementFail(k) ==
  /\ incs[k].pc = "db"
  /\ incs' = [ incs EXCEPT ![k] = IdleTask ]
  /\ log' = "Failed to increment click count"
  /\ rlast' = None /\ slast' = NoSRes
  /\ probe' = NoProbe /\ UNCHANGED avars
  /\ UNCHANGED << db, nextId, scache, rcache, now, sv, rv, hist, evars >>

\* the Resolver behind its handler and the gateway, the bus and the ingester;
\* the handler answers a resolution before anything else happens
NextEvents ==
  \/ ~Responding /\ Tick
  \/ \E c \in ValidCodes : ~Responding /\ CacheExpire(c)
  \/ \E r \in ResolverCalls :
       \/ \E c \in ResolveCodes : ~Responding /\ nres < MaxClicks /\ ResolveURL(r, c)
       \/ ~Responding /\ ResolveExpiredDel(r)
       \/ ~Responding /\ "db" \notin down /\ ResolveDb(r)
       \/ ~Responding /\ "db" \in down /\ ResolveDbDown(r)
       \/ ~Responding /\ ResolveSet(r)
       \/ ~Responding /\ ResolveDomain(r, SerialTasks)
  \/ \E k \in SerialTasks :
       \/ ~Responding /\ "db" \notin down /\ IncrementUpdate(k)
       \/ ~Responding /\ "db" \in down /\ IncrementFail(k)
       \/ ~Responding /\ IncrementGet(k)
       \/ ~Responding /\ IncrementSet(k)
  \/ \E gateway \in BOOLEAN : RespondResolved(gateway)
  \/ \E e \in ClickEvents :
       \/ ~Responding /\ Publish(e)
       \/ ~Responding /\ PublishFail(e)
  \/ ~Responding /\ Subscribe
  \/ \E e \in ClickEvents :
       \/ ~Responding /\ ProcessClick(e)
       \/ ~Responding /\ ProcessClickFail(e)
  \/ ~Responding /\ BackendFails("db")
  \/ ~Responding /\ BackendRecovers("db")

SpecEvents == InitEvents /\ [][NextEvents]_vars

\* ---------------------------------------------------- cache outage
\* every call to Redis returns an error (or what it reads cannot be decoded);
\* the keys written before the outage are still there
InitCacheDown ==
  /\ db \in { {}, { Mapped }, { Deleted } }
  /\ nextId = 2
  /\ scache \in { [ c \in Codes |-> IF c = AliasA7 THEN e ELSE None ] :
                    e \in IF db = {} THEN { None }
                          ELSE { None, cacheURL(UrlA, "u1", TRUE, Null) } }
  /\ rcache \in { [ c \in Codes |-> IF c = AliasA7 THEN e ELSE None ] :
                    e \in IF db = {} THEN { None }
                          ELSE { None, CacheEntry(Mapped) } }
  /\ now = 0
  /\ sv = [ p \in ShortenerCalls |-> IdleS ]
  /\ slast = NoSRes
  /\ rv = [ r \in ResolverCalls |-> IdleR ]
  /\ rlast = None
  /\ incs = [ k \in Tasks |-> IdleTask ]
  /\ hist = [ deleted |-> IF db = { Deleted } THEN { AliasA7 } ELSE {},
              updated |-> [ c \in Codes |-> NoUrl ],
              shortened |-> [ c \in Codes |->
                 IF c = AliasA7 /\ db # {}
                   THEN [ long_url |-> UrlA, user_id |-> "u1" ] ELSE None ] ]
  /\ down = { "cache" }
  /\ probe = NoProbe
  /\ NoAnalytics
  /\ nres = 0
  /\ pubs = {} /\ published = {} /\ inbox = {} /\ records = {}
  /\ subscribed = FALSE
  /\ log = ""

\* a step of the Shortener that logs a failure
ResolverIdleLog(line) ==
  /\ rlast' = None /\ UNCHANGED << rcache, rv, incs >>
  /\ log' = line /\ probe' = NoProbe /\ UNCHANGED evars

\* a failed cache write that fails ShortenURL
ShortenCacheDown_Fail(p) ==
  /\ sv[p].pc = "cache"
  /\ SFinish(p, "ErrCacheFailed", NoURL, "")
  /\ UNCHANGED << db, nextId, scache, now, hist >>
  /\ ResolverIdleLog("Warning: Failed to cache URL mapping")

\* s.cache.SetJSON returns an error: ShortenURL prints a warning and returns
\* the mapping
ShortenCacheDown(p) ==
  /\ sv[p].pc = "cache"
  /\ SFinish(p, "ok", dbToDomainURL(sv[p].ent), "db")
  /\ hist' = [ hist EXCEPT !.shortened[sv[p].code] =
                 [ long_url |-> sv[p].url, user_id |-> sv[p].user ] ]
  /\ UNCHANGED << db, nextId, scache, now >>
  /\ ResolverIdleLog("Warning: Failed to cache URL mapping")

\* s.cache.GetJSON returns an error, or cacheToURL returns nil: GetURL goes on
\* to the primary store
GetURLCacheDown(p, op, shortCode, userID, newLongURL) ==
  /\ sv[p].pc = "idle"
  /\ SGoto(p, [ IdleS EXCEPT !.pc = "get_db", !.op = op, !.code = shortCode,
                             !.user = userID, !.url = newLongURL,
                             !.afterDelete = (shortCode \in hist.deleted),
                             !.afterUpdate = hist.updated[shortCode] ])
  /\ UNCHANGED << db, nextId, scache, now, hist >>
  /\ ResolverIdle

\* s.cacheURL(url) whose SetJSON fails, and the return of GetURL
GetURLFillDown(p) ==
  /\ sv[p].pc = "get_fill"
  /\ AfterGet(p, sv[p], sv[p].ent, "db")
  /\ UNCHANGED << db, nextId, scache, now, hist >>
  /\ ResolverIdle

\* UpdateURL after GetURL, its s.cache.Delete failing
UpdateURLDown(p) ==
  /\ sv[p].pc = "update"
  /\ LET newLongURL == sv[p].url
     IN  IF newLongURL # NoUrl /\ ~validateURL(newLongURL)
           THEN /\ SFinish(p, "ErrInvalidURL", NoURL, "")
                /\ UNCHANGED hist
         ELSE IF newLongURL = NoUrl
           THEN /\ SFinish(p, "ok", sv[p].ent, "")
                /\ UNCHANGED hist
         ELSE /\ SFinish(p, "ok", [ sv[p].ent EXCEPT !.long_url = newLongURL ], "")
              /\ hist' = [ hist EXCEPT !.updated[sv[p].code] = newLongURL ]
  /\ UNCHANGED << db, nextId, scache, now >>
  /\ ResolverIdle

\* s.cache.Delete fails, and the return of DeleteURL
DeleteURLCacheDown(p) ==
  /\ sv[p].pc = "delete_cache"
  /\ SFinish(p, "ok", NoURL, "")
  /\ hist' = [ hist EXCEPT !.deleted = @ \cup { sv[p].code } ]
  /\ UNCHANGED << db, nextId, scache, now >>
  /\ ResolverIdle

\* RedirectService.ResolveURL, s.redis.Get returning an error or an entry
\* json.Unmarshal refuses: on to the database query
ResolveCacheDown(r, shortCode) ==
  /\ rv[r].pc = "idle"
  /\ LET l == [ IdleR EXCEPT !.code = shortCode, !.t0 = now,
                             !.afterDelete = (shortCode \in hist.deleted),
                             !.afterUpdate = IF shortCode \in Codes
                                               THEN hist.updated[shortCode] ELSE NoUrl ]
     IN  IF ~validateShortCode(shortCode)
           THEN /\ rlast' = RRes(l, FALSE, FALSE, NoUrl, 0, "invalid short code")
                /\ UNCHANGED rv
           ELSE RGoto(r, [ l EXCEPT !.pc = "db" ])
  /\ UNCHANGED << db, rcache, now, incs >>
  /\ ShortenerIdle

\* s.redis.Set fails; its result is not looked at
ResolveSetDown(r) ==
  /\ rv[r].pc = "set"
  /\ RGoto(r, [ rv[r] EXCEPT !.pc = "domain" ])
  /\ UNCHANGED << db, rcache, now, incs >>
  /\ ShortenerIdle

\* IncrementClickCount after the UPDATE: s.redis.Get fails, nothing to rewrite
IncrementGetDown(k) ==
  /\ incs[k].pc = "get"
  /\ incs' = [ incs EXCEPT ![k] = IdleTask ]
  /\ rlast' = None
  /\ UNCHANGED << db, rcache, now, rv >>
  /\ ShortenerIdle

\* both services with Redis failing throughout, Shortener calls one at a time
NextCacheDown ==
  \/ \E c \in ValidCodes : CacheExpire(c)
  \/ \E p \in SerialCalls :
       \/ \E u \in LongURLs, o \in Owners, a \in SerialAliases, e \in Expirations :
            ShortenURL(p, u, o, a, e)
       \/ ShortenCreate(p)
       \/ ShortenCacheDown(p)
       \/ \E c \in ValidCodes, o \in SerialCallers :
            GetURLCacheDown(p, "GetURL", c, o, NoUrl)
       \/ \E c \in ValidCodes, o \in SerialCallers, u \in NewLongURLs :
            GetURLCacheDown(p, "UpdateURL", c, o, u)
       \/ \E c \in ValidCodes, o \in SerialCallers :
            GetURLCacheDown(p, "DeleteURL", c, o, NoUrl)
       \/ GetURLDb(p)
       \/ GetURLFillDown(p)
       \/ UpdateURLDown(p)
       \/ DeleteURL(p)
       \/ DeleteURLCacheDown(p)
  \/ \E r \in ResolverCalls :
       \/ \E c \in Codes : ResolveCacheDown(r, c)
       \/ ResolveDb(r)
       \/ ResolveSetDown(r)
       \/ ResolveDomain(r, SerialTasks)
  \/ \E k \in SerialTasks :
       \/ IncrementClickCount(k)
       \/ IncrementGetDown(k)

SpecCacheDown == InitCacheDown /\ [][NextCacheDown]_vars

\* ------------------------------------------------------- validators
\* strings to try as codes: one character repeated, and such a string with one
\* character outside the alphabet somewhere in it
Rep(x, n) == [ i \in 1..n |-> x ]
CodeInputs ==
  { Rep(x, n) : x \in { "a", "Z", "9" }, n \in 0..MaxProbeLen }
    \cup { [ Rep("a", n) EXCEPT ![i] = y ] :
             n \in { 3, 7, 10 }, i \in 1..10, y \in { "-", " ", "@" } }

\* the custom aliases tried: the malformed strings and the alias aaaaaaa
AliasInputs == { s \in CodeInputs : s # NoAlias /\ ~validateShortCode(s) } \cup { AliasA7 }

\* validateShortCode applied to a string
ProbeShortCode(shortCode) ==
  /\ probe' = [ fn |-> "validateShortCode", arg |-> shortCode,
                out |-> validateShortCode(shortCode) ]
  /\ log' = "" /\ slast' = NoSRes /\ rlast' = None
  /\ UNCHANGED << db, nextId, scache, rcache, now, sv, rv, incs, hist, evars >>

\* ShortenURL with a custom alias, and the validator on its own
NextAlias ==
  \/ \E s \in CodeInputs : ProbeShortCode(s)
  \/ \E p \in SerialCalls :
       \/ \E u \in LongURLs, o \in Owners, a \in AliasInputs, e \in Expirations :
            ShortenURL(p, u, o, a, e)
       \/ ShortenCreate(p)
       \/ ShortenCache(p)

SpecAlias == Init /\ [][NextAlias]_vars

\* long URLs to shorten: no host, a name, loopback and private addresses
Target(scheme, host) == [ scheme |-> scheme, host |-> host, path |-> "/a" ]
ShortenTargets ==
  { Target("http", h) : h \in { "", "127.0.0.2", "10.0.0.1", "[::1]", "[::1]:8080" } }
    \cup { UrlA, UrlFtp, NoUrl }
NewTargets == { NoUrl, Target("http", "10.0.0.1"), UrlFtp }

\* ShortenURL and UpdateURL with these targets under the alias aaaaaaa, and
\* Resolve
NextTargets ==
  \/ \E p \in SerialCalls :
       \/ \E u \in ShortenTargets, o \in Owners : ShortenURL(p, u, o, AliasA7, Null)
       \/ ShortenCreate(p)
       \/ ShortenCache(p)
       \/ \E o \in Owners, u \in NewTargets : GetURL(p, "UpdateURL", AliasA7, o, u)
       \/ GetURLDb(p)
       \/ GetURLFill(p)
       \/ UpdateURL(p)
  \/ \E r \in ResolverCalls :
       \/ ResolveURL(r, AliasA7)
       \/ ResolveDb(r)
       \/ ResolveSet(r)
       \/ ResolveDomain(r, SerialTasks)
  \/ \E k \in SerialTasks :
       \/ IncrementClickCount(k)
       \/ IncrementGet(k)
       \/ IncrementSet(k)

SpecTargets == Init /\ [][NextTargets]_vars

\* ------------------------------------------- analytics: ProcessClick
AliasB7 == << "b","b","b","b","b","b","b" >>

\* domain.ClickEvent as the handlers build it: the fields the record keeps
Click(code, session, ts) ==
  [ short_code |-> code, session_id |-> session, timestamp |-> ts ]

\* the deliveries: one event twice over, a second event of the same session
\* at another time, another session and another code
ClickInputs == { Click(AliasA7, "s1", 1), Click(AliasA7, "s1", 2),
                 Click(AliasA7, "s2", 1), Click(AliasB7, "s1", 1) }

\* cacheKey := fmt.Sprintf("session:%s:%s", shortCode, sessionID)
SessionKey(shortCode, sessionID) == << "session", shortCode, sessionID >>

ClickRecord(event, isUnique) ==
  [ short_code |-> event.short_code, session_id |-> event.session_id,
    timestamp |-> event.timestamp, is_unique |-> isUnique ]

\* the lookup that also compares the timestamp
ExistsInDB_SameTimestamp(event) ==
  \E i \in 1..Len(click_analytics) :
    /\ click_analytics[i].short_code = event.short_code
    /\ click_analytics[i].session_id = event.session_id
    /\ click_analytics[i].timestamp = event.timestamp

\* SELECT count() > 0 FROM click_analytics WHERE short_code = ? AND session_id = ?
ExistsInDB(event) ==
  \E i \in 1..Len(click_analytics) :
    /\ click_analytics[i].short_code = event.short_code
    /\ click_analytics[i].session_id = event.session_id

\* an insert that skips an event already stored
Insert_Once(table, click) ==
  IF \E i \in 1..Len(table) : table[i].short_code = click.short_code
                              /\ table[i].session_id = click.session_id
                              /\ table[i].timestamp = click.timestamp
  THEN table ELSE Append(table, click)

\* INSERT INTO click_analytics (...) VALUES (...)
Insert(table, click) == Append(table, click)

\* a record of this short_code and session_id has been saved
Stored(code, session) ==
  \E i \in 1..Len(click_analytics) :
    click_analytics[i].short_code = code /\ click_analytics[i].session_id = session

AnalyticsOnly ==
  /\ slast' = NoSRes /\ rlast' = None
  /\ UNCHANGED << db, nextId, scache, rcache, now, sv, rv, incs, hist,
                  down, nres, pubs, published, inbox, records, subscribed >>

Busy == { h \in Handlers : ah[h].pc # "idle" }

\* a delivery of url.clicked, or the ProcessClick RPC, reaches
\* AnalyticsServiceImpl.ProcessClick
AnalyticsProcessClick(h, event) ==
  /\ ah[h].pc = "idle"
  /\ Len(click_analytics) + Cardinality(Busy) < MaxRecords
  /\ ah' = [ ah EXCEPT ![h] = [ pc |-> "Exists", event |-> event,
                                isUnique |-> FALSE, err |-> FALSE,
                                after |-> Stored(event.short_code,
                                                 event.session_id) ] ]
  /\ log' = "" /\ probe' = NoProbe
  /\ UNCHANGED << click_analytics, sessions >>
  /\ AnalyticsOnly

\* IsUniqueVisitor: s.redis.Exists(ctx, cacheKey)
IsUniqueVisitor(h) ==
  /\ ah[h].pc = "Exists"
  /\ LET key == SessionKey(ah[h].event.short_code, ah[h].event.session_id)
     IN IF "session-cache" \notin down /\ key \in sessions
        THEN ah' = [ ah EXCEPT ![h].pc = "SaveClick", ![h].isUnique = FALSE ]
        ELSE ah' = [ ah EXCEPT ![h].pc = "QueryRow" ]
  /\ log' = "" /\ probe' = NoProbe
  /\ UNCHANGED << click_analytics, sessions >>
  /\ AnalyticsOnly

\* IsUniqueVisitor: the ClickHouse lookup and, when the session is new,
\* s.redis.Set(ctx, cacheKey, "1", 24*time.Hour)
IsUniqueVisitorQuery(h) ==
  /\ ah[h].pc = "QueryRow"
  /\ "clickhouse" \notin down
  /\ LET event == ah[h].event
         key == SessionKey(event.short_code, event.session_id)
     IN IF ~ExistsInDB(event)
        THEN /\ sessions' = IF "session-cache" \in down THEN sessions
                            ELSE sessions \cup { key }
             /\ ah' = [ ah EXCEPT ![h].pc = "SaveClick", ![h].isUnique = TRUE ]
        ELSE /\ sessions' = sessions
             /\ ah' = [ ah EXCEPT ![h].pc = "SaveClick", ![h].isUnique = FALSE ]
  /\ log' = "" /\ probe' = NoProbe
  /\ UNCHANGED click_analytics
  /\ AnalyticsOnly

\* IsUniqueVisitor returns an error: isUnique = false // Default to false on error
IsUniqueVisitorFail(h) ==
  /\ ah[h].pc = "QueryRow"
  /\ "clickhouse" \in down
  /\ ah' = [ ah EXCEPT ![h].pc = "SaveClick", ![h].isUnique = FALSE,
                       ![h].err = TRUE ]
  /\ log' = "Failed to check unique visitor" /\ probe' = NoProbe
  /\ UNCHANGED << click_analytics, sessions >>
  /\ AnalyticsOnly

\* s.store.SaveClick succeeds and ProcessClick returns nil
SaveClick(h) ==
  /\ ah[h].pc = "SaveClick"
  /\ "clickhouse" \notin down
  /\ click_analytics' = Insert(click_analytics,
                               ClickRecord(ah[h].event, ah[h].isUnique))
  /\ ah' = [ ah EXCEPT ![h] = IdleH ]
  /\ probe' = [ fn |-> "ProcessClick", arg |-> ah[h].event,
                out |-> [ error |-> "", is_unique |-> ah[h].isUnique,
                          lookup_failed |-> ah[h].err ] ]
  /\ log' = ""
  /\ UNCHANGED sessions
  /\ AnalyticsOnly

\* s.store.SaveClick fails: return fmt.Errorf("failed to save click: %w", err)
SaveClickFail(h) ==
  /\ ah[h].pc = "SaveClick"
  /\ "clickhouse" \in down
  /\ ah' = [ ah EXCEPT ![h] = IdleH ]
  /\ probe' = [ fn |-> "ProcessClick", arg |-> ah[h].event,
                out |-> [ error |-> "failed to save click",
                          is_unique |-> ah[h].isUnique,
                          lookup_failed |-> ah[h].err ] ]
  /\ log' = "Failed to save click record"
  /\ UNCHANGED << click_analytics, sessions >>
  /\ AnalyticsOnly

\* the 24 hours of a session key run out
SessionExpire(key) ==
  /\ key \in sessions
  /\ sessions' = sessions \ { key }
  /\ log' = "" /\ probe' = NoProbe
  /\ UNCHANGED << click_analytics, ah >>
  /\ AnalyticsOnly

SessionKeys == { SessionKey(e.short_code, e.session_id) : e \in ClickInputs }

NextIngest ==
  \/ \E h \in Handlers :
       \/ \E e \in ClickInputs : AnalyticsProcessClick(h, e)
       \/ IsUniqueVisitor(h)
       \/ IsUniqueVisitorQuery(h)
       \/ IsUniqueVisitorFail(h)
       \/ SaveClick(h)
       \/ SaveClickFail(h)
  \/ \E key \in SessionKeys : SessionExpire(key)
  \/ BackendFails("clickhouse")
  \/ BackendRecovers("clickhouse")
  \/ BackendFails("session-cache")
  \/ BackendRecovers("session-cache")

SpecIngest == Init /\ [][NextIngest]_vars

\* ------------------------------------------------ URLService.GetUserURLs
\* int32 multiplication as Go computes it: the low 32 bits of the product,
\* read as a signed number (a >= 0, 0 <= b < 2^15, by 16-bit halves)
MulInt32(a, b) ==
  LET low == (a % 65536) * b
      lo == low % 65536
      hi == ((a \div 65536) * b + low \div 65536) % 65536
  IN IF hi >= 32768 THEN (hi - 65536) * 65536 + lo ELSE hi * 65536 + lo

\* the rows of the listing in ORDER BY created_at DESC: created_at grows
\* with the id
RECURSIVE NewestFirst(_)
NewestFirst(rows) ==
  IF rows = {} THEN << >>
  ELSE LET r == CHOOSE r \in rows : \A q \in rows : q.id <= r.id
       IN << r >> \o NewestFirst(rows \ { r })

\* WHERE user_id = $1 AND is_active = true
UserRows(userID) == { r \in db : r.user_id = userID /\ r.is_active }

\* PostgreSQL.GetURLsByUserID: LIMIT $2 OFFSET $3; a negative OFFSET is an error
GetURLsByUserID(userID, limit, offset) ==
  LET all == NewestFirst(UserRows(userID))
      last == IF offset + limit < Len(all) THEN offset + limit ELSE Len(all)
  IN IF offset < 0 THEN [ err |-> TRUE, urls |-> << >> ]
     ELSE [ err |-> FALSE, urls |-> SubSeq(all, offset + 1, last) ]

\* URLService.GetUserURLs
GetUserURLsResult(userID, page, pageSize) ==
  LET size == IF pageSize <= 0 \/ pageSize > 100 THEN 20 ELSE pageSize
      pg == IF page <= 0 THEN 1 ELSE page
      offset == MulInt32(pg - 1, size)
      res == GetURLsByUserID(userID, size + 1, offset)
      hasNext == Len(res.urls) > size
  IN IF res.err
     THEN [ error |-> "failed to retrieve user URLs", urls |-> << >>,
            page |-> pg, page_size |-> size, has_next |-> FALSE ]
     ELSE [ error |-> "",
            urls |-> IF hasNext THEN SubSeq(res.urls, 1, size) ELSE res.urls,
            page |-> pg, page_size |-> size, has_next |-> hasNext ]

PageCodes == << Rep("a", 7), Rep("b", 7), Rep("c", 7), Rep("d", 7),
                Rep("e", 7), Rep("f", 7), Rep("g", 7), Rep("h", 7) >>

PageRow(i, userID, isActive) ==
  [ id |-> i, short_code |-> PageCodes[i], long_url |-> UrlA, user_id |-> userID,
    expires_at |-> Null, click_count |-> 0, is_active |-> isActive ]

\* pages and page sizes: unset (0), small, the limits, and pages whose offset
\* does not fit 32 bits
Pages == { 0, 1, 2, 3, 21474838, 1073741825 }
PageSizes == { 0, 1, 2, 4, 100, 101 }

\* url_mappings holds MaxRows rows: of u1 and active, of u1 and soft-deleted,
\* or of u2 and active
InitPages ==
  /\ \E kind \in [ 1..MaxRows -> { "mine", "deleted", "other" } ] :
       db = { PageRow(i, IF kind[i] = "other" THEN "u2" ELSE "u1",
                      kind[i] # "deleted") : i \in 1..MaxRows }
  /\ nextId = MaxRows + 1
  /\ scache = [ c \in Codes |-> None ]
  /\ rcache = [ c \in Codes |-> None ]
  /\ now = 0
  /\ sv = [ p \in ShortenerCalls |-> IdleS ]
  /\ slast = NoSRes
  /\ rv = [ r \in ResolverCalls |-> IdleR ]
  /\ rlast = None
  /\ incs = [ k \in Tasks |-> IdleTask ]
  /\ hist = [ deleted |-> {}, updated |-> [ c \in Codes |-> NoUrl ],
              shortened |-> [ c \in Codes |-> None ] ]
  /\ NoEvents

GetUserURLs(userID, page, pageSize) ==
  /\ probe' = [ fn |-> "GetUserURLs", arg |-> << userID, page, pageSize >>,
                out |-> GetUserURLsResult(userID, page, pageSize) ]
  /\ log' = "" /\ slast' = NoSRes /\ rlast' = None
  /\ UNCHANGED << db, nextId, scache, rcache, now, sv, rv, incs, hist, evars >>

NextPages ==
  \E userID \in { "u1", "u2" }, page \in Pages, pageSize \in PageSizes :
    GetUserURLs(userID, page, pageSize)

SpecPages == InitPages /\ [][NextPages]_vars

\* ------------------------------------------------- analytics: reports
\* WHERE timestamp BETWEEN ? AND ?
InRange(startTime, endTime) ==
  { i \in 1..Len(click_analytics) :
      /\ startTime <= click_analytics[i].timestamp
      /\ click_analytics[i].timestamp <= endTime }

\* WHERE short_code = ? AND timestamp BETWEEN ? AND ?
InRangeOf(shortCode, startTime, endTime) ==
  { i \in InRange(startTime, endTime) : click_analytics[i].short_code = shortCode }

\* toInt64(count()), toInt64(uniq(session_id)) over the selected rows
Aggregate(rows) ==
  [ total_clicks |-> Cardinality(rows),
    unique_clicks |-> Cardinality({ click_analytics[i].session_id : i \in rows }) ]

\* GROUP BY timestamp: one element per time bucket (the order is not modelled)
Timeline(rows) ==
  { [ timestamp |-> t ] @@ Aggregate({ i \in rows : click_analytics[i].timestamp = t })
      : t \in { click_analytics[i].timestamp : i \in rows } }

\* a scan that reports the absence of a group as a failure
ScanURLStats_NoRowsFails(shortCode, rows) ==
  IF rows = {}
  THEN [ error |-> "failed to get URL stats", short_code |-> shortCode,
         total_clicks |-> 0, unique_clicks |-> 0 ]
  ELSE [ error |-> "", short_code |-> shortCode ] @@ Aggregate(rows)

\* ClickHouseStoreImpl.GetURLStats: GROUP BY short_code yields no row for an
\* empty selection, row.Scan returns sql.ErrNoRows and the zero stats are returned
ScanURLStats(shortCode, rows) ==
  IF rows = {}
  THEN [ error |-> "", short_code |-> shortCode,
         total_clicks |-> 0, unique_clicks |-> 0 ]
  ELSE [ error |-> "", short_code |-> shortCode ] @@ Aggregate(rows)

\* AnalyticsServiceImpl.GetURLStats: the basic stats and the time series
GetURLStatsReport(shortCode, startTime, endTime) ==
  LET rows == InRangeOf(shortCode, startTime, endTime)
      urlStats == ScanURLStats(shortCode, rows)
  IN urlStats @@ [ time_series |-> IF urlStats.error = "" THEN Timeline(rows) ELSE {} ]

\* ClickHouseStoreImpl.GetTopURLs: GROUP BY short_code, every group within
\* the limit (the order is not modelled)
GetTopURLsReport(startTime, endTime) ==
  LET rows == InRange(startTime, endTime)
  IN [ error |-> "",
       urls |-> { [ short_code |-> c ]
                    @@ Aggregate({ i \in rows : click_analytics[i].short_code = c })
                    : c \in { click_analytics[i].short_code : i \in rows } } ]

\* ClickHouseStoreImpl.GetDashboardMetrics: aggregates without GROUP BY give
\* one row also over an empty selection
GetDashboardMetrics(startTime, endTime) ==
  LET rows == InRange(startTime, endTime)
  IN [ error |-> "",
       total_urls |-> Cardinality({ click_analytics[i].short_code : i \in rows }),
       click_timeline |-> Timeline(rows) ] @@ Aggregate(rows)

\* click_analytics holds up to MaxRecords records of the deliveries
RECURSIVE Tables(_)
Tables(n) ==
  IF n = 0 THEN { << >> }
  ELSE LET shorter == Tables(n - 1)
       IN shorter \cup { Append(t, ClickRecord(e, u)) :
                           t \in { x \in shorter : Len(x) = n - 1 },
                           e \in ClickInputs, u \in BOOLEAN }

InitReports ==
  /\ db = {}
  /\ nextId = 1
  /\ scache = [ c \in Codes |-> None ]
  /\ rcache = [ c \in Codes |-> None ]
  /\ now = 0
  /\ sv = [ p \in ShortenerCalls |-> IdleS ]
  /\ slast = NoSRes
  /\ rv = [ r \in ResolverCalls |-> IdleR ]
  /\ rlast = None
  /\ incs = [ k \in Tasks |-> IdleTask ]
  /\ hist = [ deleted |-> {}, updated |-> [ c \in Codes |-> NoUrl ],
              shortened |-> [ c \in Codes |-> None ] ]
  /\ down = {}
  /\ nres = 0
  /\ pubs = {} /\ published = {} /\ inbox = {} /\ records = {}
  /\ subscribed = FALSE
  /\ log = ""
  /\ probe = NoProbe
  /\ click_analytics \in Tables(MaxRecords)
  /\ sessions = {}
  /\ ah = [ h \in Handlers |-> IdleH ]

\* the start and end of a range, as Unix times around those of the records
RangeTimes == 1..3

Report(fn, arg, out) ==
  /\ probe' = [ fn |-> fn, arg |-> arg, out |-> out ]
  /\ log' = "" /\ slast' = NoSRes /\ rlast' = None
  /\ UNCHANGED << db, nextId, scache, rcache, now, sv, rv, incs, hist, evars >>

GetURLStats(shortCode, startTime, endTime) ==
  Report("GetURLStats", << shortCode, startTime, endTime >>,
         GetURLStatsReport(shortCode, startTime, endTime))

GetTopURLs(startTime, endTime) ==
  Report("GetTopURLs", << startTime, endTime >>,
         GetTopURLsReport(startTime, endTime))

GetDashboard(startTime, endTime) ==
  Report("GetDashboard", << startTime, endTime >>,
         GetDashboardMetrics(startTime, endTime))

NextReports ==
  \E startTime \in RangeTimes, endTime \in RangeTimes :
    \/ \E shortCode \in { AliasA7, AliasB7 } : GetURLStats(shortCode, startTime, endTime)
    \/ GetTopURLs(startTime, endTime)
    \/ GetDashboard(startTime, endTime)

SpecReports == InitReports /\ [][NextReports]_vars

\* ================================================================ properties

\* the rows of the primary store for a code that are active
ActiveRows(shortCode) == { row \in db : row.short_code = shortCode /\ row.is_active }

\* C1: once Delete(code, owner) has returned success, every Resolve(code) that
\* starts later returns found = false and never the long URL, whether or not
\* the Resolver had cached the code before the delete.
C1_DeletedNeverResolves ==
  (rlast # None /\ rlast.afterDelete) =>
     (~rlast.found /\ rlast.long_url = NoUrl)

C3_ConcurrentAliasTaken ==
  ( /\ slast.op = "ShortenURL"
    /\ slast.alias /\ slast.fresh
    /\ validateURL(slast.arg) /\ validateShortCode(slast.code)
    /\ slast.status # "ok" )
  => ( /\ slast.status = "ErrCustomAliasUsed"
       /\ Cardinality(RowsByCode(slast.code)) = 1 )

\* C4: ShortenURL with a custom alias equal to a short_code that exists in the
\* primary store (active or soft-deleted) fails with ErrCustomAliasUsed and
\* changes neither the store nor the cache.
C4_ExistingAliasTaken ==
  [][ ( /\ slast'.op = "ShortenURL"
        /\ slast'.alias /\ ~slast'.fresh
        /\ validateURL(slast'.arg) )
      => ( /\ slast'.status = "ErrCustomAliasUsed"
           /\ db' = db /\ scache' = scache ) ]_vars

\* C5: the primary store holds at most one mapping, active or soft-deleted,
\* per short_code, and ids are not reused.
C5_OneMappingPerCode ==
  \A r1 \in db, r2 \in db :
    (r1.short_code = r2.short_code \/ r1.id = r2.id) => r1 = r2

\* two Shorten calls raced on one code: the second insert was refused and the
\* store holds exactly one mapping for the code
C5_Witness ==
  /\ slast.op = "ShortenURL" /\ slast.fresh
  /\ slast.status = "ErrSaveFailed"
  /\ Cardinality(RowsByCode(slast.code)) = 1

\* C6: ShortenURL(u, o) followed by GetURL(code, o) on the returned code, the
\* mapping still active, succeeds and returns the same short_code, long_url = u
\* and owner = o, served from the cache or from the primary store.
C6_ShortenThenGet ==
  ( /\ slast.op = "GetURL"
    /\ hist.shortened[slast.code] # None
    /\ ActiveRows(slast.code) # {}
    /\ slast.user = hist.shortened[slast.code].user_id )
  => ( /\ slast.status = "ok"
       /\ slast.served \in { "cache", "db" }
       /\ slast.url.short_code = slast.code
       /\ slast.url.long_url = hist.shortened[slast.code].long_url
       /\ slast.url.user_id = slast.user )

\* GetURL by the owner has been answered from the cache after ShortenURL returned
C6_Witness ==
  /\ slast.op = "GetURL" /\ slast.status = "ok" /\ slast.served = "cache"
  /\ slast.user = "u1"
  /\ hist.shortened[slast.code] # None
  /\ ActiveRows(slast.code) # {}

\* C7: after Update(code, owner, u') has returned success, every Resolve(code)
\* and GetInfo(code) that starts later and finds the mapping returns u'.
C7_UpdateThenRead ==
  /\ (rlast # None /\ rlast.afterUpdate # NoUrl /\ rlast.found /\ ~rlast.expired)
        => rlast.long_url = rlast.afterUpdate
  /\ (slast.op = "GetURL" /\ slast.afterUpdate # NoUrl /\ slast.status = "ok")
        => slast.url.long_url = slast.afterUpdate

\* C8: GetURL, UpdateURL and DeleteURL called with a non-empty user different
\* from the owner of the active mapping return ErrUnauthorized and change
\* neither the primary store nor the cache, on the cache-hit and the cache-miss
\* path; GetURL with an empty user still returns the active mapping.
C8_WrongOwnerUnauthorized ==
  [][ /\ ( /\ slast'.op \in { "GetURL", "UpdateURL", "DeleteURL" }
           /\ slast'.user # ""
           /\ \E row \in ActiveRows(slast'.code) : row.user_id # slast'.user )
         => ( /\ slast'.status = "ErrUnauthorized"
              /\ db' = db /\ scache' = scache )
      /\ \A p \in ShortenerCalls :
           ( /\ sv[p].pc = "idle" /\ sv'[p].pc = "get_db"
             /\ sv'[p].user # ""
             /\ \E row \in ActiveRows(sv'[p].code) : row.user_id # sv'[p].user )
           => (db' = db /\ scache' = scache)
      /\ ( /\ slast'.op = "GetURL" /\ slast'.user = ""
           /\ ActiveRows(slast'.code) # {} )
         => slast'.status = "ok" ]_vars

\* DeleteURL by a stranger has been refused on the cache-miss path while the
\* mapping is active
C8_Witness ==
  /\ slast.op = "DeleteURL" /\ slast.status = "ErrUnauthorized"
  /\ slast.served = "db" /\ slast.user = "u2"
  /\ ActiveRows(slast.code) # {}

\* C9: after DeleteURL(code, owner) has returned success, every GetURL and every
\* DeleteURL for the code that starts later returns ErrURLNotFound.
C9_DeletedStaysNotFound ==
  (slast.op \in { "GetURL", "DeleteURL" } /\ slast.afterDelete)
     => slast.status = "ErrURLNotFound"

\* C10: a soft-deleted mapping stays in the primary store and stays inactive,
\* and no active mapping appears for its short_code.
C10_ActiveOnlyFalls ==
  [][ \A row \in db :
        ~row.is_active =>
           /\ \E row2 \in db' : row2.id = row.id
           /\ \A row2 \in db' :
                (row2.id = row.id \/ row2.short_code = row.short_code)
                   => ~row2.is_active ]_vars

\* a soft-deleted mapping has been resolved and counted, and a ShortenURL with
\* its code has been attempted since
C10_Witness ==
  /\ slast.op = "ShortenURL" /\ slast.status = "ErrSaveFailed"
  /\ \E row \in RowsByCode(slast.code) : ~row.is_active /\ row.click_count > 0

\* C11: UpdateURL and DeleteURL called with an empty user never succeed and
\* change neither the primary store nor the cache.
C11_EmptyOwnerRefused ==
  [][ /\ ( slast'.op \in { "UpdateURL", "DeleteURL" } /\ slast'.user = "" )
         => ( /\ slast'.status # "ok"
              /\ db' = db /\ scache' = scache )
      /\ \A p \in ShortenerCalls :
           ( /\ sv[p].op \in { "UpdateURL", "DeleteURL" } /\ sv[p].user = ""
             /\ sv'[p] # sv[p] )
           => (db' = db /\ scache' = scache) ]_vars

\* C12: click_count in the primary store never decreases in any step; each
\* IncrementClickCount raises it by exactly 1, also when two increments run
\* concurrently, and no other step changes it.
C12_ClickCountMonotonic ==
  [][ /\ \A row \in db :
           \E row2 \in db' : row2.id = row.id /\ row2.click_count >= row.click_count
      /\ \A k \in Tasks, c \in ValidCodes :
           (incs[k].pc = "db" /\ incs'[k].pc = "get" /\ incs[k].code = c)
              => ClickCount(c)' = ClickCount(c) + 1
      /\ (\A k \in Tasks : ~(incs[k].pc = "db" /\ incs'[k].pc = "get"))
              => \A c \in ValidCodes : ClickCount(c)' = ClickCount(c) ]_vars

\* two increments have reached the primary store while both goroutines are
\* still running
C12_Witness ==
  /\ ClickCount(AliasA7) >= 2
  /\ \A k \in Tasks : incs[k].pc \in { "get", "set" }

\* C13: every successful Resolve schedules exactly one increment and nothing
\* else does; under fair scheduling every scheduled increment reaches the
\* primary store, so click_count eventually equals its earlier value plus the
\* number of successful Resolve calls.
C13_IncrementsEventuallyApplied ==
  /\ [][ \A c \in ValidCodes :
           /\ (rlast' # None /\ rlast'.code = c /\ rlast'.found /\ ~rlast'.expired)
                 => ( /\ Pending(c)' = Pending(c) + 1
                      /\ ClickCount(c)' = ClickCount(c) )
           /\ (Pending(c)' > Pending(c))
                 => (rlast' # None /\ rlast'.code = c /\ rlast'.found /\ ~rlast'.expired) ]_vars
  /\ \A c \in ValidCodes, n \in 1..(MaxResolves + 1) :
       (ClickCount(c) + Pending(c) = n) ~> (ClickCount(c) >= n)

\* all the resolutions the model allows have succeeded and been counted
C13_Witness ==
  /\ ClickCount(AliasA7) = MaxResolves
  /\ \A k \in Tasks : incs[k].pc = "idle"

\* the resolution a returned result belongs to, once the handler has answered it
Succeeded(res) == res # None /\ res.found /\ ~res.expired

\* C14: for every successful resolution, one served through the gateway's
\* GET /{code} included, at most one ClickEvent is published on url.clicked
C14_OneEventPerResolution ==
  \A n \in 1..nres : Cardinality({ e \in published : e.res = n }) <= 1

\* C15: a Resolve that does not succeed publishes no ClickEvent and schedules
\* no click-count increment: an increment goroutine starts only in the step
\* that returns found = true and expired = false, a publish goroutine only in
\* the answer to such a result, and every event belongs to an answered
\* resolution
C15_OnlyAfterSuccess ==
  [][ /\ (\E k \in Tasks : incs[k].pc = "idle" /\ incs'[k].pc = "db")
           => (rlast' # None /\ rlast'.found /\ ~rlast'.expired)
      /\ ~(pubs' \subseteq pubs)
           => (rlast # None /\ rlast.found /\ ~rlast.expired)
      /\ (rlast' # None /\ ~(rlast'.found /\ ~rlast'.expired))
           => (incs' = incs /\ pubs' = pubs /\ published' = published)
      /\ (rlast # None /\ ~(rlast.found /\ ~rlast.expired))
           => (pubs' \subseteq pubs /\ nres' = nres)
      /\ \A e \in pubs' \cup published' : e.res \in 1..nres' ]_vars

\* an expired mapping has been answered found = true, expired = true with no
\* increment scheduled and no event to publish
C15_Witness ==
  /\ rlast # None /\ rlast.found /\ rlast.expired
  /\ pubs = {} /\ published = {}
  /\ \A k \in Tasks : incs[k].pc = "idle"

\* C16: every ClickEvent published on url.clicked reaches the ingester: it is
\* with the subscription handler or persisted, never lost
C16_PublishedNeverLost ==
  \A e \in published : e \in inbox \/ e \in records

\* C17: neither a failed publish nor a failed increment is surfaced, and
\* Resolve waits for neither: the step that fails returns nothing and touches
\* no call in progress, the successful result is returned while its increment
\* has yet to run, and its event is published only after the answer
C17_FailuresNotSurfaced ==
  [][ /\ log' # "" => (rlast' = None /\ rv' = rv)
      /\ Succeeded(rlast')
           => /\ \E k \in Tasks : incs'[k] = [ pc |-> "db", code |-> rlast'.code,
                                               ent |-> None ]
              /\ \A e \in pubs' \cup published' : e.res <= nres
              /\ nres' = nres
      /\ ~(pubs' \subseteq pubs) => (Succeeded(rlast) /\ rlast' = None) ]_vars

\* a publish has failed after the resolution was answered
C17_Witness ==
  /\ log = "Failed to publish click event"
  /\ nres >= 1
  /\ rlast = None

\* C18: when the primary store is unavailable during a Resolve that misses
\* the cache, the result for a code that is mapped is not the one of a code
\* that does not exist
C18_StoreDownReported ==
  [][ \A r \in ResolverCalls :
        (rv[r].pc = "db" /\ "db" \in down /\ ActiveRows(rv[r].code) # {}
           /\ rlast' # None)
          => ~(rlast'.found = FALSE /\ rlast'.error = "Short URL not found") ]_vars

\* C19: a cache failure never fails an operation.  With every cache call
\* failing, Shorten of a valid URL under a free valid alias returns success
\* with the mapping persisted; GetInfo is answered from the primary store,
\* success with an active row's data and not-found only when no row is active,
\* whatever the cache holds; Resolve is never answered from the cache and a
\* successful one returns the long URL of a stored row
C19_CacheFailureDegrades ==
  /\ (slast.op = "ShortenURL" /\ validateURL(slast.arg) /\ slast.alias
        /\ validateShortCode(slast.code) /\ slast.fresh)
       => /\ slast.status = "ok"
          /\ \E row \in ActiveRows(slast.code) :
               row.long_url = slast.arg /\ row.user_id = slast.user
  /\ slast.op = "GetURL"
       => /\ slast.served = "db"
          /\ slast.status \in { "ok", "ErrURLNotFound", "ErrUnauthorized" }
          /\ slast.status = "ErrURLNotFound" <=> ActiveRows(slast.code) = {}
          /\ slast.status = "ok"
               => \E row \in ActiveRows(slast.code) :
                    /\ slast.url.long_url = row.long_url
                    /\ slast.url.user_id = row.user_id
                    /\ slast.user = row.user_id
  /\ rlast # None
       => /\ ~rlast.hit
          /\ rlast.error \in { "", "invalid short code", "Short URL not found",
                               "Short URL has expired", "URL has expired",
                               "invalid destination URL" }
          /\ (rlast.found /\ ~rlast.expired)
               => \E row \in db : /\ row.short_code = rlast.code
                                  /\ row.long_url = rlast.long_url

\* GetInfo of a soft-deleted mapping is answered not-found from the primary
\* store while the cache still holds the mapping as active
C19_Witness ==
  /\ slast.op = "GetURL" /\ slast.status = "ErrURLNotFound" /\ slast.served = "db"
  /\ CacheLive(scache[slast.code])
  /\ down = { "cache" }

\* C20: Resolve with a short code that is not 3 to 10 alphanumeric characters
\* is rejected as invalid in the step that starts it, which reads and changes
\* nothing; no call with such a code gets to a cache or primary-store step
C20_InvalidCodeNoIO ==
  [][ \A r \in ResolverCalls :
        LET wellFormed(c) == Len(c) \in 3..10 /\ \A i \in 1..Len(c) : c[i] \in Alnum
        IN  /\ rv'[r].pc # "idle" => wellFormed(rv'[r].code)
            /\ (rlast' # None /\ ~wellFormed(rlast'.code))
                 => /\ rlast'.error = "invalid short code" /\ ~rlast'.found
                    /\ rv[r].pc = "idle"
                    /\ UNCHANGED << db, rcache, rv, incs, evars >> ]_vars

\* a code with a character outside the alphabet has been rejected
C20_Witness ==
  /\ rlast # None /\ rlast.code = AliasBad
  /\ rlast.error = "invalid short code"
  /\ pubs = {} /\ \A k \in Tasks : incs[k].pc = "idle"

\* 3 to 10 characters, each of them a letter or a digit
WellFormed(c) == Len(c) \in 3..10 /\ \A i \in 1..Len(c) : c[i] \in Alnum

LoopbackOrPrivate(host) ==
  host \in { "localhost", "127.0.0.1", "127.0.0.2", "10.0.0.1", "172.16.0.1",
             "192.168.1.1", "[::1]", "[::1]:8080" }

\* a long URL the Shortener is to refuse and the Resolver not to redirect to
Unacceptable(u) ==
  \/ u = NoUrl
  \/ u.scheme \notin { "http", "https" }
  \/ u.host = ""
  \/ LoopbackOrPrivate(u.host)

\* C22: ShortenURL, and UpdateURL with a new long URL, reject with the
\* invalid-URL error every long URL that is empty, has a scheme other than
\* http/https, an empty host, or a loopback or private host
C22_UnacceptableRefused ==
  /\ (slast.op = "ShortenURL" /\ Unacceptable(slast.arg))
       => slast.status = "ErrInvalidURL"
  /\ (slast.op = "UpdateURL" /\ slast.arg # NoUrl /\ Unacceptable(slast.arg)
        /\ slast.status \notin { "ErrURLNotFound", "ErrUnauthorized" })
       => slast.status = "ErrInvalidURL"
  /\ \A row \in db : ~Unacceptable(row.long_url)

\* C23: Resolve never returns found = true, expired = false with a long URL
\* whose scheme is not http/https, whose host is empty, or whose host is a
\* loopback or private address
C23_NoUnsafeRedirect ==
  (rlast # None /\ rlast.found /\ ~rlast.expired) => ~Unacceptable(rlast.long_url)

\* C24: a ProcessClick call that starts when a record of the same short_code
\* and session_id is already saved stores its record with is_unique = false
C24_RepeatNotUnique ==
  [][\A h \in Handlers :
       ( /\ ah[h].pc = "SaveClick" /\ ah'[h].pc = "idle"
         /\ Len(click_analytics') = Len(click_analytics) + 1
         /\ ah[h].after )
       => ~click_analytics'[Len(click_analytics')].is_unique]_vars

\* the same event saved twice, the first time as unique, the second time not,
\* the session key having run out in between
C24_Witness ==
  /\ Len(click_analytics) = 2
  /\ click_analytics[1] = ClickRecord(Click(AliasA7, "s1", 1), TRUE)
  /\ click_analytics[2] = ClickRecord(Click(AliasA7, "s1", 1), FALSE)
  /\ SessionKey(AliasA7, "s1") \notin sessions
  /\ probe.fn = "ProcessClick" /\ probe.arg = Click(AliasA7, "s1", 1)
  /\ "session-cache" \notin down

\* C30: a ProcessClick call that returns nil has appended exactly one record
\* with the event's short_code, session_id and timestamp, with is_unique = false
\* when the uniqueness lookup failed; no other step changes click_analytics
C30_OneRecordPerDelivery ==
  [][IF probe'.fn = "ProcessClick" /\ probe'.out.error = ""
     THEN /\ Len(click_analytics') = Len(click_analytics) + 1
          /\ SubSeq(click_analytics', 1, Len(click_analytics)) = click_analytics
          /\ LET r == click_analytics'[Len(click_analytics')]
             IN /\ r.short_code = probe'.arg.short_code
                /\ r.session_id = probe'.arg.session_id
                /\ r.timestamp = probe'.arg.timestamp
                /\ probe'.out.lookup_failed => ~r.is_unique
     ELSE click_analytics' = click_analytics]_vars

\* the second delivery of an event is stored as a second record although its
\* uniqueness lookup failed
C30_Witness ==
  /\ probe.fn = "ProcessClick" /\ probe.out.error = ""
  /\ probe.out.lookup_failed
  /\ probe.arg = Click(AliasA7, "s1", 1)
  /\ Len(click_analytics) = 2
  /\ click_analytics[1].timestamp = 1 /\ click_analytics[1].short_code = AliasA7
  /\ click_analytics[1].session_id = "s1"
  /\ click_analytics[2] = ClickRecord(Click(AliasA7, "s1", 1), FALSE)

\* C25: GetUserURLs with page_size in 1..100 returns without error at most
\* page_size mappings, all active and owned by the caller, and has_next is
\* true exactly when the owner has more active mappings than page * page_size;
\* page_size 0 is answered as page_size 20 and page 0 as page 1
C25_Paging ==
  probe.fn = "GetUserURLs" =>
    LET userID == probe.arg[1]
        page == IF probe.arg[2] = 0 THEN 1 ELSE probe.arg[2]
        pageSize == IF probe.arg[3] = 0 THEN 20 ELSE probe.arg[3]
        count == Cardinality({ r \in db : r.user_id = userID /\ r.is_active })
    IN pageSize \in 1..100 =>
         /\ probe.out.error = ""
         /\ probe.out.page = page /\ probe.out.page_size = pageSize
         /\ Len(probe.out.urls) <= pageSize
         /\ \A i \in 1..Len(probe.out.urls) :
              /\ probe.out.urls[i] \in db
              /\ probe.out.urls[i].user_id = userID
              /\ probe.out.urls[i].is_active
         /\ probe.out.has_next
              <=> (count > 0 /\ (count - 1) \div pageSize >= page)

\* C26: a report over a range that holds no click record (of the code, for
\* GetURLStats), end before start included, returns without error, with zero
\* totals and empty lists
C26_EmptyRange ==
  /\ probe.fn = "GetURLStats" =>
       ( (\A i \in 1..Len(click_analytics) :
            ~( /\ click_analytics[i].short_code = probe.arg[1]
               /\ probe.arg[2] <= click_analytics[i].timestamp
               /\ click_analytics[i].timestamp <= probe.arg[3] ))
         => /\ probe.out.error = ""
            /\ probe.out.total_clicks = 0 /\ probe.out.unique_clicks = 0
            /\ probe.out.time_series = {} )
  /\ probe.fn \in { "GetTopURLs", "GetDashboard" } =>
       ( (\A i \in 1..Len(click_analytics) :
            ~( /\ probe.arg[1] <= click_analytics[i].timestamp
               /\ click_analytics[i].timestamp <= probe.arg[2] ))
         => /\ probe.out.error = ""
            /\ probe.fn = "GetTopURLs" => probe.out.urls = {}
            /\ probe.fn = "GetDashboard" =>
                 /\ probe.out.total_urls = 0 /\ probe.out.total_clicks = 0
                 /\ probe.out.unique_clicks = 0
                 /\ probe.out.click_timeline = {} )

\* GetURLStats of a code with stored clicks over a range that ends before
\* it starts
C26_Witness ==
  /\ probe.fn = "GetURLStats" /\ probe.arg = << AliasA7, 2, 1 >>
  /\ Len(click_analytics) = 2
  /\ click_analytics[1].short_code = AliasA7 /\ click_analytics[1].timestamp = 1
  /\ click_analytics[2].short_code = AliasA7 /\ click_analytics[2].timestamp = 2
  /\ probe.out.error = "" /\ probe.out.total_clicks = 0
\* C27: a ShortenURL call without a custom alias fails for a collision only
\* when its tenth draw collided; a collision with a stored short_code, of a
\* soft-deleted mapping or of one inserted in the meantime included, never
\* ends the call with the failure of the insert
C27_CollisionRetried ==
  (slast.op = "ShortenURL" /\ ~slast.alias) => slast.status # "ErrSaveFailed"

\* C28: the click_count of a Resolver cache entry never exceeds the
\* click_count of the row of its code
C28_CacheCountLowerBound ==
  \A c \in ValidCodes :
    rcache[c] # None =>
      \A r \in RowsByCode(c) : rcache[c].click_count <= r.click_count

\* C29: every write of a URL cache key sets an expiry of at most 24 hours
\* and of at most the time that remains until the mapping's expires_at
C29_TtlBounded ==
  probe.fn = "Set" =>
    /\ probe.out.expiry
    /\ probe.out.ttl <= TTL24h
    /\ probe.arg.expires_at # Null => probe.out.ttl <= probe.arg.expires_at - now

\* ------------------------------------- analytics: the url.clicked handler
\* the printable ASCII characters, in code order from 32 (the backslash
\* and the backtick, which no text of the model holds, by name)
ascii ==
    << " ", "!", "\"", "#", "$", "%", "&", "'", "(", ")", "*", "+", ",",
       "-", ".", "/", "0", "1", "2", "3", "4", "5", "6", "7", "8", "9",
       ":", ";", "<", "=", ">", "?", "@", "A", "B", "C", "D", "E", "F",
       "G", "H", "I", "J", "K", "L", "M", "N", "O", "P", "Q", "R", "S",
       "T", "U", "V", "W", "X", "Y", "Z", "[", "<backslash>", "]", "^", "_", "<backtick>",
       "a", "b", "c", "d", "e", "f", "g", "h", "i", "j", "k", "l", "m",
       "n", "o", "p", "q", "r", "s", "t", "u", "v", "w", "x", "y", "z",
       "{", "|", "}", "~" >>

Ord(c) == 31 + CHOOSE i \in 1..Len(ascii) : ascii[i] = c

NonAscii == "<bin>"

Chr(b) == IF b \in 32..126 THEN ascii[b - 31] ELSE NonAscii

Bytes(text) == [ i \in 1..Len(text) |-> Ord(text[i]) ]

Chars(bytes) == [ i \in 1..Len(bytes) |-> Chr(bytes[i]) ]

Quote == "\""

Digits == { "0", "1", "2", "3", "4", "5", "6", "7", "8", "9" }

\* the alphabet of base64.StdEncoding, padded with "="
encodeStd ==
    << "A", "B", "C", "D", "E", "F", "G", "H", "I", "J", "K", "L", "M",
       "N", "O", "P", "Q", "R", "S", "T", "U", "V", "W", "X", "Y", "Z",
       "a", "b", "c", "d", "e", "f", "g", "h", "i", "j", "k", "l", "m",
       "n", "o", "p", "q", "r", "s", "t", "u", "v", "w", "x", "y", "z",
       "0", "1", "2", "3", "4", "5", "6", "7", "8", "9", "+", "/" >>

\* the broker's encoding of a []byte payload: three bytes to four characters
RECURSIVE EncodeToString(_)
EncodeToString(b) ==
  LET E(n) == encodeStd[n + 1]
  IN IF Len(b) = 0 THEN << >>
     ELSE IF Len(b) = 1
     THEN << E(b[1] \div 4), E((b[1] % 4) * 16), "=", "=" >>
     ELSE IF Len(b) = 2
     THEN << E(b[1] \div 4), E((b[1] % 4) * 16 + b[2] \div 16),
             E((b[2] % 16) * 4), "=" >>
     ELSE << E(b[1] \div 4), E((b[1] % 4) * 16 + b[2] \div 16),
             E((b[2] % 16) * 4 + b[3] \div 64), E(b[3] % 64) >>
          \o EncodeToString(SubSeq(b, 4, Len(b)))

\* the message as the broker carries a []byte payload: a JSON string of base64
Wrapped(raw) == << Quote >> \o EncodeToString(Bytes(raw)) \o << Quote >>

DecodeErr == [ ok |-> FALSE, bytes |-> << >> ]

DecodeVal(c) ==
  IF \E i \in 1..Len(encodeStd) : encodeStd[i] = c
  THEN (CHOOSE i \in 1..Len(encodeStd) : encodeStd[i] = c) - 1
  ELSE -1

\* a quantum of an encoding without padding
DecodeQuantum_NoPadding(q, last) ==
  LET v == [ i \in 1..4 |-> DecodeVal(q[i]) ]
  IN IF \A i \in 1..4 : v[i] >= 0
     THEN [ ok |-> TRUE,
            bytes |-> << v[1] * 4 + v[2] \div 16,
                         (v[2] % 16) * 16 + v[3] \div 4,
                         (v[3] % 4) * 64 + v[4] >> ]
     ELSE DecodeErr

\* one quantum of four characters; padding is accepted in the last one only
DecodeQuantum(q, last) ==
  LET v == [ i \in 1..4 |-> DecodeVal(q[i]) ]
  IN IF \A i \in 1..4 : v[i] >= 0
     THEN [ ok |-> TRUE,
            bytes |-> << v[1] * 4 + v[2] \div 16,
                         (v[2] % 16) * 16 + v[3] \div 4,
                         (v[3] % 4) * 64 + v[4] >> ]
     ELSE IF last /\ v[1] >= 0 /\ v[2] >= 0 /\ q[3] = "=" /\ q[4] = "="
     THEN [ ok |-> TRUE, bytes |-> << v[1] * 4 + v[2] \div 16 >> ]
     ELSE IF last /\ v[1] >= 0 /\ v[2] >= 0 /\ v[3] >= 0 /\ q[4] = "="
     THEN [ ok |-> TRUE,
            bytes |-> << v[1] * 4 + v[2] \div 16,
                         (v[2] % 16) * 16 + v[3] \div 4 >> ]
     ELSE DecodeErr

\* decoded, err := base64.StdEncoding.DecodeString(encodedString)
RECURSIVE DecodeString(_)
DecodeString(s) ==
  IF Len(s) = 0 THEN [ ok |-> TRUE, bytes |-> << >> ]
  ELSE IF Len(s) < 4 THEN DecodeErr
  ELSE LET d == DecodeQuantum(SubSeq(s, 1, 4), Len(s) = 4)
           r == DecodeString(SubSeq(s, 5, Len(s)))
       IN IF d.ok /\ r.ok THEN [ ok |-> TRUE, bytes |-> d.bytes \o r.bytes ]
          ELSE DecodeErr

\* json.Unmarshal(messageBody, &encodedString), for texts without escapes:
\* the whole body is one JSON string
UnmarshalString(body) ==
  IF /\ Len(body) >= 2
     /\ body[1] = Quote /\ body[Len(body)] = Quote
     /\ \A i \in 2..(Len(body) - 1) : body[i] # Quote
  THEN [ ok |-> TRUE, s |-> SubSeq(body, 2, Len(body) - 1) ]
  ELSE [ ok |-> FALSE, s |-> << >> ]

EmptyMap == [ k \in {} |-> 0 ]

MapErr == [ ok |-> FALSE, map |-> EmptyMap ]

\* the first position of c in s at or after i, 0 when there is none
IndexFrom(s, c, i) ==
  IF \E j \in i..Len(s) : s[j] = c
  THEN CHOOSE j \in i..Len(s) : s[j] = c /\ \A k \in i..(j - 1) : s[k] # c
  ELSE 0

RECURSIVE NumberEnd(_, _)
NumberEnd(s, i) ==
  IF i + 1 <= Len(s) /\ s[i + 1] \in Digits THEN NumberEnd(s, i + 1) ELSE i

RECURSIVE NumberValue(_)
NumberValue(d) ==
  IF Len(d) = 0 THEN 0
  ELSE NumberValue(SubSeq(d, 1, Len(d) - 1)) * 10 + (Ord(d[Len(d)]) - 48)

\* the members of a JSON object from position i on: "key":value, separated
\* by commas and closed by "}", a value being a string or a whole number
RECURSIVE ParseMembers(_, _, _)
ParseMembers(s, i, acc) ==
  LET kEnd == IF i <= Len(s) /\ s[i] = Quote THEN IndexFrom(s, Quote, i + 1)
              ELSE 0
      key == SubSeq(s, i + 1, kEnd - 1)
      v == kEnd + 2
      isStr == v <= Len(s) /\ s[v] = Quote
      isNum == /\ v <= Len(s) /\ s[v] \in Digits
               /\ ~(s[v] = "0" /\ NumberEnd(s, v) > v)
      vEnd == IF isStr THEN IndexFrom(s, Quote, v + 1)
              ELSE IF isNum THEN NumberEnd(s, v) ELSE 0
      val == IF isStr
             THEN [ t |-> "string", v |-> SubSeq(s, v + 1, vEnd - 1) ]
             ELSE [ t |-> "float64", v |-> NumberValue(SubSeq(s, v, vEnd)) ]
      acc2 == (key :> val) @@ acc
  IN IF \/ kEnd = 0 \/ kEnd + 1 > Len(s) \/ s[kEnd + 1] # ":"
        \/ vEnd = 0 \/ vEnd + 1 > Len(s)
     THEN MapErr
     ELSE IF s[vEnd + 1] = "}"
     THEN IF vEnd + 1 = Len(s) THEN [ ok |-> TRUE, map |-> acc2 ] ELSE MapErr
     ELSE IF s[vEnd + 1] = "," THEN ParseMembers(s, vEnd + 2, acc2)
     ELSE MapErr

\* json.Unmarshal(jsonData, &clickData) with clickData map[string]interface{}:
\* null leaves the map nil without an error, any other non-object fails
UnmarshalMap(text) ==
  IF text = << "n", "u", "l", "l" >> THEN [ ok |-> TRUE, map |-> EmptyMap ]
  ELSE IF text = << "{", "}" >> THEN [ ok |-> TRUE, map |-> EmptyMap ]
  ELSE IF Len(text) > 2 /\ text[1] = "{" THEN ParseMembers(text, 2, EmptyMap)
  ELSE MapErr

getStringFromMap(data, key) ==
  IF key \in DOMAIN data /\ data[key].t = "string" THEN data[key].v ELSE << >>

KeyShortCode == << "s", "h", "o", "r", "t", "_", "c", "o", "d", "e" >>
KeySessionID == << "s", "e", "s", "s", "i", "o", "n", "_", "i", "d" >>
KeyTimestamp == << "t", "i", "m", "e", "s", "t", "a", "m", "p" >>

\* the handler of url.clicked up to the call of ProcessClick
DecodeClick(messageBody) ==
  LET quoted == Len(messageBody) > 0 /\ messageBody[1] = Quote
      str == UnmarshalString(messageBody)
      dec == DecodeString(str.s)
      jsonData == IF quoted THEN Chars(dec.bytes) ELSE messageBody
      parsed == UnmarshalMap(jsonData)
      clickData == parsed.map
      ts == IF /\ KeyTimestamp \in DOMAIN clickData
               /\ clickData[KeyTimestamp].t = "float64"
            THEN clickData[KeyTimestamp].v ELSE now
  IN IF quoted /\ ~str.ok
     THEN [ processed |-> FALSE,
            error |-> "Failed to unmarshal encoded string" ]
     ELSE IF quoted /\ ~dec.ok
     THEN [ processed |-> FALSE, error |-> "Failed to decode base64" ]
     ELSE IF ~parsed.ok
     THEN [ processed |-> FALSE, error |-> "Failed to parse click event JSON" ]
     ELSE [ processed |-> TRUE,
            event |-> Click(getStringFromMap(clickData, KeyShortCode),
                            getStringFromMap(clickData, KeySessionID), ts) ]

\* json.Marshal(clickEvent) of three publications
RawA ==
    << "{", "\"", "s", "h", "o", "r", "t", "_", "c", "o", "d", "e", "\"",
       ":", "\"", "a", "a", "a", "a", "a", "a", "a", "\"", ",", "\"", "s",
       "e", "s", "s", "i", "o", "n", "_", "i", "d", "\"", ":", "\"", "s",
       "1", "\"", ",", "\"", "t", "i", "m", "e", "s", "t", "a", "m", "p",
       "\"", ":", "1", "}" >>

RawB ==
    << "{", "\"", "s", "h", "o", "r", "t", "_", "c", "o", "d", "e", "\"",
       ":", "\"", "a", "a", "a", "a", "a", "a", "a", "\"", ",", "\"", "s",
       "e", "s", "s", "i", "o", "n", "_", "i", "d", "\"", ":", "\"", "s",
       "2", "\"", ",", "\"", "t", "i", "m", "e", "s", "t", "a", "m", "p",
       "\"", ":", "1", "2", "}" >>

RawC ==
    << "{", "\"", "s", "h", "o", "r", "t", "_", "c", "o", "d", "e", "\"",
       ":", "\"", "b", "b", "b", "b", "b", "b", "b", "\"", ",", "\"", "s",
       "e", "s", "s", "i", "o", "n", "_", "i", "d", "\"", ":", "\"", "s",
       "1", "\"", ",", "\"", "t", "i", "m", "e", "s", "t", "a", "m", "p",
       "\"", ":", "\"", "x", "\"", "}" >>

RawBodies == { RawA, RawB, RawC }

WrappedBodies == { Wrapped(raw) : raw \in RawBodies }

\* bodies that are no event: a wrapper that is no JSON string, wrappers that
\* are not base64, texts that are not JSON, and JSON that is no object
BadWrapper == << "\"", "e", "y", "J", "9" >>
BadBase64 == << "\"", "e", "3", "0", "\"" >>
BadAlphabet == << "\"", "e", "3", "0", "_", "\"" >>
NotJSON == << "c", "l", "i", "c", "k" >>
Truncated == << "{", "\"", "s", "h", "o", "r", "t", "_", "c", "o", "d", "e", "\"", ":", "\"", "a", "a", "a", "a", "a", "a", "a", "\"" >>
JSONArray == << "[", "1", "]" >>
JSONNumber == << "7" >>
JSONNull == << "n", "u", "l", "l" >>

MalformedBodies ==
  { << >>, BadWrapper, BadBase64, BadAlphabet, NotJSON, Truncated, JSONArray,
    JSONNumber, JSONNull, Wrapped(NotJSON), Wrapped(JSONArray),
    Wrapped(JSONNull) }

MessageBodies == RawBodies \cup WrappedBodies \cup MalformedBodies

Subscriber == "h1"

\* a message of url.clicked reaches the subscription's handler, which
\* discards it or hands the event to ProcessClick; it returns nil either way
ClickDelivered(messageBody) ==
  LET d == DecodeClick(messageBody)
      h == Subscriber
  IN /\ ah[h].pc = "idle"
     /\ IF d.processed
        THEN /\ Len(click_analytics) < MaxRecords
             /\ ah' = [ ah EXCEPT ![h] =
                          [ pc |-> "Exists", event |-> d.event,
                            isUnique |-> FALSE, err |-> FALSE,
                            after |-> Stored(d.event.short_code,
                                             d.event.session_id) ] ]
             /\ log' = "Processing click event from NATS"
        ELSE /\ ah' = ah
             /\ log' = d.error
     /\ probe' = [ fn |-> "url.clicked", arg |-> messageBody, out |-> d ]
     /\ UNCHANGED << click_analytics, sessions >>
     /\ AnalyticsOnly

NextDecode ==
  \/ \E body \in MessageBodies : ClickDelivered(body)
  \/ IsUniqueVisitor(Subscriber)
  \/ IsUniqueVisitorQuery(Subscriber)
  \/ SaveClick(Subscriber)

SpecDecode == Init /\ [][NextDecode]_vars

\* C31: a malformed url.clicked message (a wrapper that is no base64 string,
\* a body that is no JSON object) is discarded: the handler does not call
\* ProcessClick for it and stays ready for the next message
C31_MalformedDiscarded ==
  (probe.fn = "url.clicked" /\ probe.arg \in MalformedBodies) =>
    /\ ~probe.out.processed
    /\ ah[Subscriber].pc = "idle"

EventA == Click(AliasA7, << "s", "1" >>, 1)
EventB == Click(AliasA7, << "s", "2" >>, 12)
EventC == Click(AliasB7, << "s", "1" >>, now)

Encoded == { << RawA, EventA >>, << RawB, EventB >>, << RawC, EventC >> }

\* C32: a message whose body is the JSON string of the base64 encoding of an
\* event's JSON is decoded to the same ClickEvent as the message whose body
\* is that JSON, and that event is the one handed to ProcessClick
C32_WrappedAsRaw ==
  \A p \in Encoded :
    (probe.fn = "url.clicked" /\ probe.arg \in { p[1], Wrapped(p[1]) }) =>
      /\ probe.out.processed
      /\ probe.out.event = p[2]
      /\ ah[Subscriber].pc = "Exists"
      /\ ah[Subscriber].event = p[2]

\* the wrapped form of an event arrives after a delivery of the same event
\* has been stored
C32_Witness ==
  /\ probe.fn = "url.clicked" /\ probe.arg = Wrapped(RawA)
  /\ probe.out.processed /\ probe.out.event = EventA
  /\ Len(click_analytics) = 1
  /\ click_analytics[1] = ClickRecord(EventA, TRUE)

\* C33: the Shortener's validation and the Resolver's recheck accept the same
\* URLs: Resolve of a mapping that ShortenURL stored never ends with the
\* invalid-destination outcome
C33_AcceptedIsResolvable ==
  rlast # None => rlast.error # "invalid destination URL"

\* -------------------------- analytics: a batch of events, one at a time
\* the batches: every multiset of up to MaxEvents deliveries, a delivery
\* being its place in the batch and its event
Batches ==
  UNION { { { << i, f[i] >> : i \in 1..n } : f \in [ 1..n -> ClickInputs ] } :
          n \in 0..MaxEvents }

InitBatch ==
  /\ db = {}
  /\ nextId = 1
  /\ scache = [ c \in Codes |-> None ]
  /\ rcache = [ c \in Codes |-> None ]
  /\ now = 0
  /\ sv = [ p \in ShortenerCalls |-> IdleS ]
  /\ slast = NoSRes
  /\ rv = [ r \in ResolverCalls |-> IdleR ]
  /\ rlast = None
  /\ incs = [ k \in Tasks |-> IdleTask ]
  /\ hist = [ deleted |-> {}, updated |-> [ c \in Codes |-> NoUrl ],
              shortened |-> [ c \in Codes |-> None ] ]
  /\ down = {}
  /\ nres = 0
  /\ pubs = {} /\ records = {}
  /\ published \in Batches
  /\ inbox = published
  /\ subscribed = TRUE
  /\ log = ""
  /\ probe = NoProbe
  /\ NoAnalytics

\* the next delivery of the batch, in any order, once the call before it
\* has returned
BatchDelivered(d) ==
  /\ d \in inbox
  /\ ah[Subscriber].pc = "idle"
  /\ inbox' = inbox \ { d }
  /\ ah' = [ ah EXCEPT ![Subscriber] =
               [ pc |-> "Exists", event |-> d[2], isUnique |-> FALSE,
                 err |-> FALSE,
                 after |-> Stored(d[2].short_code, d[2].session_id) ] ]
  /\ log' = "" /\ probe' = NoProbe
  /\ slast' = NoSRes /\ rlast' = None
  /\ UNCHANGED << db, nextId, scache, rcache, now, sv, rv, incs, hist,
                  down, nres, pubs, published, records, subscribed,
                  click_analytics, sessions >>

Deliveries == (1..MaxEvents) \X ClickInputs

NextBatch ==
  \/ \E d \in Deliveries : BatchDelivered(d)
  \/ IsUniqueVisitor(Subscriber)
  \/ IsUniqueVisitorQuery(Subscriber)
  \/ SaveClick(Subscriber)
  \/ \E key \in SessionKeys : SessionExpire(key)

SpecBatch == InitBatch /\ [][NextBatch]_vars

\* the records of a short_code, and those of them flagged unique
RecordsOf(code) ==
  { i \in 1..Len(click_analytics) : click_analytics[i].short_code = code }

UniqueOf(code) == { i \in RecordsOf(code) : click_analytics[i].is_unique }

BatchDone == inbox = {} /\ ah[Subscriber].pc = "idle"

\* C34: when a batch has been processed one event at a time, the number of
\* records of each short_code is the number of its events in the batch and
\* the number of them flagged unique is the number of its sessions in the
\* batch, whatever the order of processing was
C34_OrderIndependent ==
  BatchDone =>
    \A code \in { AliasA7, AliasB7 } :
      LET of == { d \in published : d[2].short_code = code }
      IN /\ Cardinality(RecordsOf(code)) = Cardinality(of)
         /\ Cardinality(UniqueOf(code)) =
              Cardinality({ d[2].session_id : d \in of })

\* a batch of three events of one code, two of them of one session,
\* processed last delivery first
C34_Witness ==
  /\ BatchDone
  /\ published = { << 1, Click(AliasA7, "s1", 1) >>,
                   << 2, Click(AliasA7, "s1", 2) >>,
                   << 3, Click(AliasA7, "s2", 1) >> }
  /\ click_analytics = << ClickRecord(Click(AliasA7, "s2", 1), TRUE),
                          ClickRecord(Click(AliasA7, "s1", 2), TRUE),
                          ClickRecord(Click(AliasA7, "s1", 1), FALSE) >>

\* ------------------------------------ generateShortCode: bytes to characters
\* the values of a byte that rand.Read delivers
ByteValues == 0..255

\* a draw of CodeLength bytes whose first byte is b
DrawOf(b) == [ i \in 1..CodeLength |-> IF i = 1 THEN b ELSE 0 ]

\* the conversion of one draw, applied on its own
MintDraw(b) ==
  /\ probe' = [ fn |-> "generateShortCode", arg |-> DrawOf(b),
                out |-> CodeOfBytes(DrawOf(b)) ]
  /\ log' = "" /\ slast' = NoSRes /\ rlast' = None
  /\ UNCHANGED << db, nextId, scache, rcache, now, sv, rv, incs, hist, evars >>

NextMint == \E b \in ByteValues : MintDraw(b)

SpecMint == Init /\ [][NextMint]_vars

\* the byte values that the conversion sends to the character c
BytesOf(c) == { b \in ByteValues : CodeOfBytes(DrawOf(b))[1] = c }

\* C35: the conversion of a random byte to a code character sends the same
\* number of the 256 byte values to every character of the alphabet
C35_UniformCharacters ==
  probe.fn = "generateShortCode" =>
    \A i \in 1..Len(charset) :
      Cardinality(BytesOf(charset[i])) = Cardinality(BytesOf(probe.out[1]))

\* C36: in the primary store no step changes a mapping's short_code,
\* long_url, owner or expires_at; the active flag changes only in the UPDATE
\* of DeleteURL by the owner, which leaves click_count alone, and click_count
\* changes only in the UPDATE of IncrementClickCount, which leaves the
\* active flag alone
C36_StoreFrame ==
  [][\A row \in db :
       \E next \in db' :
         /\ next.id = row.id /\ next.short_code = row.short_code
         /\ next.long_url = row.long_url /\ next.user_id = row.user_id
         /\ next.expires_at = row.expires_at
         /\ next.is_active # row.is_active =>
              /\ next.click_count = row.click_count
              /\ ~next.is_active
              /\ \E p \in ShortenerCalls :
                   /\ sv[p].op = "DeleteURL" /\ sv[p].pc = "delete"
                   /\ sv[p].code = row.short_code /\ sv[p].user = row.user_id
         /\ next.click_count # row.click_count =>
              /\ next.is_active = row.is_active
              /\ next.click_count = row.click_count + 1
              /\ \E k \in Tasks :
                   incs[k].pc = "db" /\ incs[k].code = row.short_code]_vars

\* a mapping that was updated by its owner, resolved and counted, and then
\* deleted, still with the long URL it was created with
C36_Witness ==
  \E row \in db :
    /\ ~row.is_active /\ row.click_count = 1
    /\ hist.updated[row.short_code] # NoUrl
    /\ row.long_url # hist.updated[row.short_code]

\* C37: under any interleaving of ProcessClick calls, at most one record of
\* a short_code and session_id is flagged is_unique
C37_OneUniquePerSession ==
  \A i, j \in 1..Len(click_analytics) :
    ( /\ i # j
      /\ click_analytics[i].short_code = click_analytics[j].short_code
      /\ click_analytics[i].session_id = click_analytics[j].session_id
      /\ click_analytics[i].is_unique )
    => ~click_analytics[j].is_unique

\* C38: a Resolver cache entry that is absent comes into being only by the
\* write-through of a Resolve whose read of the primary store found the
\* mapping active and unexpired, never by an increment task writing back the
\* entry it read before the removal
C38_NoResurrection ==
  [][\A c \in Codes :
       (rcache[c] = None /\ rcache'[c] # None) =>
         \E r \in ResolverCalls :
           /\ rv[r].pc = "set" /\ rv[r].code = c /\ rv[r].ent.is_active
           /\ rcache'[c] = CacheEntry(rv[r].ent)]_vars

\* C39: a GetURL answered from the primary store and, with no step in
\* between, a GetURL of the same code by the same caller answered from the
\* cache return the same long_url, owner, active flag, expires_at and
\* click_count
C39_SameFromCache ==
  [][( /\ slast.op = "GetURL" /\ slast.status = "ok" /\ slast.served = "db"
       /\ slast'.op = "GetURL" /\ slast'.status = "ok"
       /\ slast'.served = "cache"
       /\ slast'.code = slast.code /\ slast'.user = slast.user )
     => /\ slast'.url.long_url = slast.url.long_url
        /\ slast'.url.user_id = slast.url.user_id
        /\ slast'.url.is_active = slast.url.is_active
        /\ slast'.url.expires_at = slast.url.expires_at
        /\ slast'.url.click_count = slast.url.click_count]_vars

====
